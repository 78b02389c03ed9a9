# A TLA+ verification of Lightspeed Core Stack

Lightspeed Core Stack (`src/`, implementation in `src/src/`) is a Python/FastAPI
service that answers questions with a large language model. It sits between its
clients and OGX, the server that runs inference and keeps the items of each
conversation, and adds what OGX does not have: compaction of long
conversations, interruptible streams, quotas, a conversation cache, metadata,
guardrails, agents (A2A), authentication and authorization.

This directory holds TLA+ models of the parts where several tasks, processes or
failing calls meet, TLC runs that check them, and proofs checked by TLAPS.
Paths below are relative to `src/src/`.

## Inventory

| Component | State | Operations | What is hard | What makes it correct |
|---|---|---|---|---|
| Conversation compaction (`utils/conversation_compaction.py`, `utils/compaction.py`) | items of the conversation in OGX, summary rows in the cache, locals of each request | probe, fetch and evaluate, summarize, write marker, store row, fold, build input | LLM calls and writes of concurrent requests interleave; each may fail; several workers; two sources of truth | the model is told everything stored when the request arrived; nothing twice; markers and rows agree |
| Conversation locks (same file) | registry of counted `asyncio.Lock`s | acquire, release, remove entry | cancellation while waiting, removal while others arrive | mutual exclusion, no leaked entry, no lost wakeup, order |
| Stream lifecycle (`utils/agents/streaming.py`, `app/endpoints/streaming_query.py`) | position of the stream, guard | start, compact, forward, end, error, handle cancellation, account | cancellation lands at any suspension; generator abandoned | ends; turn stored and recorded once; interrupted turns free |
| Interrupt registry (`utils/stream_interrupts.py`, `app/endpoints/stream_interrupt.py`) | active streams by request id | register, cancel, deregister, callback | races with completion and with itself | as above, and the registry drains |
| Pending turn (`utils/pending_turn.py`) | who stores the turn, its outcome | store completed, interrupted, blocked; ensure settled | several paths store the same turn; a failed write may have been applied | stored at most once, never silently dropped |
| Conversation cache (`cache/`) | conversations, topics, summaries by user | insert, get, list, delete, replace summaries | autocommit, disconnects, four back ends | no partial turn, same answers from each back end |
| Conversation metadata (`utils/query.py`, `app/endpoints/conversations_v1.py`, `_v2.py`) | rows per conversation and turn | continue or fork, create or update, number a turn, delete | read-modify-write in several workers; delete against a running request | turns numbered in order; the last response is the latest; what is cached is recorded |
| Quotas (`quota/`, `runners/quota_scheduler.py`, `utils/quota_utils.py`) | a row per subject, scheduler thread | check, first use, consume, increase, reset | check-then-consume, first use races, statements that share a time stamp | every charge finds its row; bounded debt; an empty quota is renewed |
| Responses endpoint (`app/endpoints/responses.py`) | as query, plus previous response ids | create, stream, blocked turns stored in the background | many combinations of store, conversation and previous id | the turn is stored when it should be |
| A2A (`app/endpoints/a2a.py`, `a2a_storage/`) | events of a task, context to conversation | execute, publish, cancel, restart | lookup and store of a context in separate awaits; four error paths; restarts | one final event, last; a completed turn is stored; a context continues its conversation |
| MCP server registry (`configuration.py`, `app/endpoints/mcp_servers.py`) | static and dynamic servers | add, remove, list, reload | two structures kept in step | a name is dynamic iff it was added at run time and is present |
| Guardrails (`pydantic_ai_lightspeed/capabilities/`) | last item of the conversation | replace the last assistant message | another request appends between fetch and delete | only the flagged message is replaced |
| Azure token, OGX client (`authorization/azure_token_manager.py`, `client/ogx.py`) | a token with its expiry, the held client | take the client, refresh, install, reload | a client is replaced while others use the old one; initialization awaits | clients are installed in the order of their tokens; nobody calls with an older one |
| Authentication, authorization | cached keys | resolve, check | expiry of keys | no stale use |
| Vector stores, RAG, prompts, feedback, transcripts, markdown repair | none shared beyond a row or file | pass-through calls, pure algorithms | data, not control | functional correctness |
| Configuration, observability, telemetry, metrics, PII redaction | read at start, or output only | validate, merge, emit | none of concurrency | functional correctness |

Components interact by plain calls within a request's task. What they share is
OGX's item list of a conversation (append, fetch, delete), the two databases,
the in-process lock and interrupt registries, and callbacks scheduled as tasks
on the event loop. Between two `await`s a task is not interrupted; that is the
grain of every action here. Hazards at their lines are listed in
`PROJECT.json`, each with the properties that would catch it.

## Modules

| Module | Models |
|---|---|
| `FullHistory` | the abstract promise: every request is answered by a model that was told the whole history |
| `ConversationCompaction` | one conversation, concurrent requests, compaction, its cache rows and the append of turns |
| `ConversationCompaction_proofs` | theorems about it, for any number of workers |
| `OneWorker_proofs` | theorems about it where one process serves the conversation, with a cache |
| `FairLock` | the abstract promise of the locks: one at a time, in the order of arrival |
| `ConversationLock` | the registry of per-conversation locks and the wait queue of `asyncio.Lock` |
| `ConversationLock_proofs` | theorems about it |
| `TurnAccount` | the abstract promise of a streamed answer: settled, then listed once and charged, and never charged once stopped |
| `StreamTurn` | the turn of a streamed answer: stream, handler, interrupt callbacks, pending turn |
| `StreamTurn_proofs` | theorems about it |
| `Ledger` | the abstract promise of the quotas: accounts that are charged within a credit that a positive balance grants |
| `Quota` | the quota table, the requests that pass and are charged by the limiters, and the scheduler that renews the rows |
| `Quota_proofs` | theorems about it |
| `TurnLog` | the abstract promise of the tables: the turns of a conversation are a log, appended to in one step |
| `ConversationRecords` | the rows of conversations and turns and the cache under concurrent workers, continuations, forks and deletions |
| `ConversationRecords_proofs` | theorems about it |
| `ClientHolder` | the Azure token of a worker, the held OGX client, and the requests and readiness checks that use and replace it |
| `ClientHolder_proofs` | theorems about it |
| `TaskLifecycle` | the abstract promise of an A2A task: one way through its states, completed once it is answered and its turn settled |
| `A2AExecutor` | the messages of A2A contexts, the events of their tasks, the context stores, cancellations and restarts |
| `A2AExecutor_proofs` | theorems about it |
| `MCCompaction`, `MCLock`, `MCStreamTurn`, `MCQuota`, `MCRecords`, `MCHolder`, `MCA2A` | values of the constants for TLC |

A definition whose comment starts with *Mutant* is a deliberately wrong variant
of the definition that follows it; no specification uses it. Each property is
violated when the mutant paired with it in `PROJECT.json` takes the place of the
original, which shows that the property says something about that code.

### ConversationCompaction

* **Items** are records of a kind (`message`, `tool`, `marker`), of the set of
  messages they speak for, and for a marker of the count of items it covers.
  Text is abstracted to that set: a summary of turns speaks for their messages.
* **A request** moves through `pc`: `probe` (streaming endpoint only, without
  the lock), `lock`, `fetch`, `summarize`, `mark`, `record`, `fold`, `replace`,
  then `infer` (the conversation parameter is sent and OGX replays all items) or
  directly `answered` (the explicit input is sent), `done`, `failed`.
* `Evaluate` takes fetch and evaluation as one step. That is sound: between the
  answer of OGX and the evaluation only other requests' appends can fall, the
  fetched pages are then a prefix of the list, and the cache is written by the
  holder of the lock only.
* Token budgets are abstracted to any outcome: whether the conversation is too
  long, whether summaries are folded, how many buffered turns fit.
* The fold is two SQL statements, which autocommit makes two commits: `Fold`
  deletes the rows, `InsertFold` inserts the one that replaces them. Either may
  fail (`CacheFaults`), and the request then goes on with the unfolded summaries
  (`GoOnUnfolded`); after a failed INSERT the rows are gone.
* `Abort` ends a request at any point of `AbortPoints`: a failed call, a
  cancelled task, a client gone. In `record` the marker was written and its
  acknowledgement was lost; in `fold` and `replace` a statement failed with an
  error that `SQLiteCache` does not wrap in a `CacheError`.
* The lock is taken as given here (`holder`): any request whose turn it may be
  takes a free lock. That the code provides such a lock, and one that is granted
  in the order of arrival, is what `ConversationLock` is about.
* **Not modelled**: deletion of items by a guardrail violation (it shifts the
  counts of markers), image-only messages, markers without a count, which older
  versions wrote (`utils/conversation_compaction.py:227` and 266), and an
  abandoned generator that keeps the lock until it is collected.

### ConversationLock

A task goes `idle`, `inside`, `idle`, or through a future in the queue of the
lock, which is `pending`, `resolved` (woken), `cancelled` or `revoked`
(cancelled after it was woken). The registry mutex never blocks, because its
sections contain no `await`, so joining and leaving are single steps.
`asyncio.Lock` is external and modelled after its documented behaviour: the
released lock is not handed over, the woken task takes it when it runs.

`ImplementsFairLock` maps this to `FairLock`: a pending and a resolved task both
wait, a cancelled and a revoked one have withdrawn although their futures are
still queued, and of the futures ahead of a task only those that wait count.
Entries, counts and wakeups have no counterpart, so creating an entry and
finding one free are the same abstract step.

### StreamTurn

Three tasks may finish a turn: the stream (`AnswerEnds`, `StoreEnds`), its
`CancelledError` handler (`HandleCancel`, `HandlerEnds`) and the callback of an
interrupt (`Callback`, `CallbackEnds`). `guard` is `persist_guard[0]`,
`outcome` and `leftToOgx` are the fields of `PendingTurn`, `writing` says whose
append is under way, `stored` counts the copies in the conversation and
`recorded` the calls of `store_query_results` that succeeded. `cancelled` is a
cancellation requested and not yet delivered: `Interrupt` requests one,
`Disconnect` one that Starlette's task group repeats at each suspension. It is
delivered by `HandleCancel` while the stream waits for an event, by `DieSending`
while Starlette sends, by `Killed` anywhere else. `Close` is the finalization of
an abandoned generator. An answer to an interrupt that changes nothing
(unknown id, other owner, finished task) is a stutter.

* A failed or cancelled append may or may not have been applied by OGX.
* `Record` is one step, since `store_query_results` does not suspend; when one
  of its three stores fails the turn counts as not recorded.
* The yield of a plain stream's start event is outside the `try` that
  deregisters, so a client lost there leaves the entry behind (`DieSending`).
* `ImplementsTurnAccount` maps this to `TurnAccount`: a turn is `kept` when there
  is a copy of it, else `lost` when its write failed, else `open` (`Fate`); it is
  stopped by the first interrupt that was accepted. Tasks, guards, writes under
  way and cancellations have no counterpart.
* **Not modelled**: the shield capabilities' own writes, `store=false`,
  `previous_response_id` (neither is reachable from this endpoint), and the
  cancellation of background topic tasks at shutdown.

### Quota

`rows`, `available` and `age` are the table of quotas: a row per user and one
for the cluster, the column `available`, and `revoked_at` as the ticks that
passed since. All limiters and the scheduler run on connections that
autocommit, so a step is one SQL statement, and requests are slots in any
worker. A request passes each limiter with `Read` (the SELECT of
`available_quota`) and, at the first use of a row, `InitQuota`, goes through up
to `MaxCharges` LLM calls (`LLMCall`; summarizations are charged like the
answer) and is charged by each limiter in turn (`Consume`). It may end at any
time (`Finish`), and with `Faults` any of its statements may fail
(`StatementFails`). The scheduler goes through the limiters forever with
`Increase` and `Reset`, which are due by the same column and both set it; its
sleep is any pause between two steps.

* `MaxQuota` stands for the width of the column (an `int` in PostgreSQL): an
  increase beyond it fails for all rows and skips the limiter.
* PostgreSQL compares ages strictly, SQLite does not; the difference is less
  than a tick.
* `ImplementsLedger` maps this to `Ledger`: the rows are accounts with their
  balances, and a request holds of each subject what it may still be charged to
  it (`Outstanding`), at most `MaxCharges` times what a call can cost there. Of
  the actions that move an account, the first use of a row opens it, each
  limiter of a subject that is passed grants the credit, a charge spends it, and
  a call that cost less than it could, and the end of a request, release what is
  left; the scheduler renews balances. Limiters, phases and ages have no
  counterpart.
* **Not modelled**: `revoke_quota` and `increase_quota` of the limiters, which
  nothing calls, the history of token usage, and the lower end of the column.

### ConversationRecords

`row` is the table `user_conversation` (`message_count` and
`last_response_id`), `number` the table `user_turn`, `ogx` the conversations that
exist in OGX, `cache` the entries of the conversation cache. A request is
accepted without context, in a conversation or from a previous response
(`StartNew`, `StartInConversation`, `StartFromResponse`), answered or refused
(`Answer`, `AnswerUnstored`) and recorded: the session reads the row (`ReadConversation`) and the highest turn
number (`ReadTopTurn`) and writes both rows in one transaction (`Commit`); then
the cache gets its entry (`StoreInCache`).

* `store_query_results` does not await, so a worker runs it to its end before
  anything else (`Free`); other workers interleave between its statements.
* An append whose failure ends the request is an `Answer` that does not happen
  (`Fail`). A compacting stream and an interrupt only log such a failure
  (`utils/agents/streaming.py:178`, `utils/stream_interrupts.py:287`) and record
  and cache the turn all the same: `AnswerUnstored`, which does not ask whether
  OGX has the conversation. So nothing here says that a recorded turn is in OGX;
  `StreamTurn` says when it is. An interrupted turn is recorded with an empty
  response id, here with one of its own.
* Nothing but the primary keys orders the workers: a commit whose turn number
  is taken, whose INSERT finds the row or whose UPDATE does not find it is
  `Rejected`. That is what the proofs of the numbering rest on.
* `cascade` is the difference of the databases: PostgreSQL deletes the turns
  with their conversation, SQLite as the code opens it keeps them, and the
  numbering of a conversation that comes back goes on after them.
* `ImplementsTurnLog` maps the tables to `TurnLog`: the log of a conversation is
  its turns in the order of their numbers (`LogOf`), its last answer the
  `last_response_id` of its row (`LastOf`). Requests, sessions, OGX and the cache
  have no counterpart, and a commit that loses its count only is an append like
  any other. A deletion ends the log for good where it takes the turns with it:
  a session that read the old numbers commits afterwards what no log explains.
  SQLite keeps the turns, so there a deletion only forgets the last answer.
* **Not modelled**: topic summaries and titles, the contents of transcripts,
  OGX's refusal of a conversation while a deletion is under way (a request on a
  deleted conversation fails, had its answer before, or is one of those whose
  append is not checked).

### ClientHolder

Tokens are numbered as they are acquired, and a client is the number of the
token in its provider data: `holder` is the held client, `carried` the one a
request uses, `token` and `fresh` the manager's token and whether it is
unexpired. `Refresh` acquires a token and, in service mode or without a base
URL, installs it without an await; in library mode `Initialized` or
`InitializeFails` follows. `Reload` to `ReloadFails` are the readiness check.

* No token expires while a client with it is initialized: it lives for an hour
  and initialization takes seconds.
* `lost` remembers that the held client does not have the token because the
  code dropped it: `reload_library_client` installs a client without provider
  data, and a failing `initialize` leaves a manager that calls its token fresh.
  No request refreshes before the token expires then.
* **Not modelled**: the summarization call of a query, which is made before the
  refresh and so uses the client as it was taken; the synthesis of the library
  configuration; file uploads.

### A2AExecutor

A message goes `received`, `preparing`, `mapping`, `starting`, `streaming`,
`storing`, `completing`, `done`; the steps between are the awaits of
`_process_task_streaming`. `mapping` is the context store as each worker sees
it, one table with a database (`shared`), a dictionary per worker in memory, and
`events` what was published for the task of each message. `Fail` stands for the
four places that report an error, `Cancelled` for the client that goes away or
waits 300 seconds for a chunk, and `Restart` for a worker that ends with all it
executes and all it keeps in memory.

* A conversation is named by the message OGX created it for. A conversation
  whose first message failed before `SetContext` stays in OGX without a mapping.
* Nothing orders the messages of a context. Two messages of one store that find
  it unmapped create a conversation each, and the last to store wins; `raced`
  marks these contexts. `HistoryPreserved`, and what `ContextContinues` says of
  the conversation that is found, are about the others: of two that raced, the
  one that overwrites the mapping may fail, and the next message then finds its
  empty conversation.
* `ImplementsTaskLifecycle` maps this to `TaskLifecycle`: the status of a task
  is the last one among its events (`Told`), its answer is the artifact
  (`Answered`), and its turn is kept, lost or open (`Turn`), as it was written,
  its write failed or neither. Contexts, stores and workers have no counterpart;
  a cancellation or a restart leaves the task where it was.
* **Not modelled**: the other task states of `TaskResultAggregator`, which no
  event of the executor reaches, the parts of the artifacts, the task stores, a
  failure whose publication fails and is only logged
  (`app/endpoints/a2a.py:418`), and the `ValueError`s of `execute` before there
  is a task (`app/endpoints/a2a.py:384` and 399).

## Runs

| Run | Checks | Shows |
|---|---|---|
| `markers` | `MarkersAuthoritative`, `ImplementsFullHistory` | without a cache, with two workers, tool calls and any failure, compaction is invisible |
| `cached` | `ImplementsFullHistory`, `NothingTwice`, `CacheAgreesWithMarkers`, `BoundaryNeverMovesBack`, `EveryRequestEnds` | the same with a cache whose inserts succeed, one user, one worker; and every request ends, which none could if another kept the lock |
| `lock` | `MutualExclusion`, `RegisteredWhileUsed`, `ImplementsFairLock`, `WaitersAreServed` | the registry is right under cancellation, nobody is overtaken, and whoever waits is served or cancelled |
| `stream` | `StoredOnce`, `InterruptedNotCharged`, `ImplementsTurnAccount` | with two interrupts, lost clients and failing calls, all tasks keep one account of the turn |
| `stream_ends` | `EveryStreamEnds`, `RegistryDrains`, `InterruptKeepsTheTurn` | one interrupt, nothing fails |
| `quota` | `ChargesFindRows`, `OverspendBounded`, `ImplementsLedger`, `ExhaustionEnds` | charges find their rows and stay within what was granted, debt is bounded by the requests in flight, an empty quota is renewed although statements fail |
| `records` | `TurnsNumberedInOrder`, `CountWithinTurns`, `ImplementsTurnLog`, `ContinuesLatest`, `CachedIsRecorded` | unsynchronised sessions append to a log in one step, and the rows, the turns, the last response and the cache fit together although stores and appends fail and a conversation is deleted |
| `holder` | `NotOlderThanAtStart`, `LibraryHolderCurrent` | clients are installed in the order of their tokens without any lock |
| `a2a` | `FinalOnceAndLast`, `ImplementsTaskLifecycle`, `ContextContinues`, `HistoryPreserved`, `EveryTaskEnds` | tasks go one way and end once, completed turns are stored, a context continues where it was answered, also across restarts |

The first passing run of each module also checks its type invariant.
`ContextComplete` is what `ImplementsFullHistory` asks of the step that gives a
request its context; it is proved, too, without a cache and with a reliable one.
`RecordedOnce` is what `ImplementsTurnAccount`, and `CompletedIsStored` what
`ImplementsTaskLifecycle` says of one state, so no run repeats them; they are
theorems of their own. Three more runs show a disagreement between the code and
what its comments or documents say; the quotes are in `PROJECT.json` under
`findings`:

| Run | Property | What happens |
|---|---|---|
| `cache_write_fails` | `ContextComplete` | a chunk is in a marker but in no row; once another row exists the model is not told about it |
| `cache_fold_fails` | `CacheAgreesWithMarkers` | a fold deletes its rows, its INSERT fails, and the markers stay; a row that is written later hides the earlier summaries |
| `holder_stale` | `TokenIsPassed` | a request took its client before another one refreshed the token, finds the token fresh, and calls with a client that has none |

### Limits of the code found while modelling

These follow from the actions named, and no property of a run forbids them:

* The lock of a conversation covers compaction only. Inference and the append
  of the turn come after it, so a turn is appended while another request
  compacts (`StoreTurn` between `StartSummary` and `WriteMarker`), although the
  comment at `utils/conversation_compaction.py:111` names this as what the lock
  prevents. `ContextComplete` holds all the same, because a marker counts the
  items its request fetched.
* A plain stream that is interrupted after OGX stored its turn, while its last
  events are on their way, has the turn appended again
  (`persist_interrupted_turn` does not ask who stores it); `StoredOnce` leaves
  these turns out.
* A second interrupt of a stream cancels the handler while it persists; the turn
  is then in no list of conversations, contrary to
  `docs/devel_doc/query_endpoint.md:311`. `InterruptKeepsTheTurn` is checked with
  one interrupt.
* `initial_quota` and `quota_increase` on one limiter: the increase stamps the
  row, the reset after it is never due, and the quota accumulates, while
  `quota/quota_limiter.py:23` says it is reset to the sum.
* `message_count` may fall behind the turns, because it is incremented from the
  value the session read; `CountWithinTurns` is the direction that holds.
* A row of a deleted conversation comes back when a request on it was answered
  before the deletion and is recorded after it. With SQLite the turns of a
  deleted conversation stay, and v1 deletion leaves the cache while v2 deletes
  nothing else.
* "A linear chain of user turns" (`docs/devel_doc/responses.md:672`) is not
  ensured for overlapping requests: two that name the latest response both
  continue from it (`utils/endpoints.py:255` reads the row once).
* Two overlapping first messages of an A2A context are answered in two
  conversations (`app/endpoints/a2a.py:473`), and the mapping keeps one, be it
  that of a message that failed.
* Cached rows belong to a user while markers belong to the conversation, so a
  second user may be served from rows that lack the other's chunk; and the locks
  belong to a process, so two workers may compact at once. `markers` has two
  workers and loses nothing by it, `cached` has one worker and one user for these
  reasons.
* On the compaction path a stream announces its request id before it registers
  for interrupts.

### Bounds

* Compaction: four requests, a buffer of one turn, turns of two messages, and
  with a tool item between them in `markers`. Four requests allow
  two turns to be stored, a third request to compact, and a fourth to compact
  concurrently or to read the result; a second compaction, and so a fold, needs
  two rows and fits as well. Every request is served once, so the system stops:
  `CHECK_DEADLOCK FALSE`.
* Lock: four tasks, three on one conversation and one on another. Three users
  are the least for a queue whose first member is cancelled
  while the second waits behind it. Tasks never stop, so deadlock is checked.
* Streams: one that compacts and one that starts a conversation, in the same
  run; streams share no state in the model, so two stand for any number.
  `MaxInterrupts` = 2 bounds the interrupts that are answered "cancelled"; a
  second interrupt already meets every position of handler and callback.

* Quota: two slots for requests of one user, who also share the cluster's row;
  a user limiter and a cluster limiter, one that is reset and one that is
  increased; two calls of one token. Two requests are the least that race for a
  row or pass on the last token, and `OverspendBounded` is tight: both may be
  charged everything after one of them saw one token. Requests come back, so
  deadlock is checked. `MaxQuota` = 2 lets the cluster's row reach the end of the
  column; `ExhaustionEnds` would not hold of several users under one increasing
  limiter, where a full row fails the statement for the others too.
* Records: three requests, two workers, two conversations, one deletion. Two
  workers are the least whose sessions interleave, since a worker does not
  interrupt a session; three requests allow two sessions on top of an existing
  row, a continuation next to a fork, and a turn after a deletion. Requests are
  served once, so the system stops: `CHECK_DEADLOCK FALSE`. Requests,
  conversations and workers are symmetric, and no liveness is checked.
* Holder: three requests that refresh, one of A2A and two readiness checks. A
  request keeps a client across one await of its own; three are the least of
  which one holds an old client, one initializes and one arrives. The number of
  tokens is bounded by the requests, as each refreshes once.
* A2A: three messages, two contexts, two workers, two messages on one of them.
  Three messages allow two that overlap and one that comes after; the second
  context shows that contexts do not disturb each other. Messages are served
  once and workers may restart at any time.

### Fairness

* Compaction: weak fairness of each request's own steps. Each call has a
  timeout or returns, and the event loop resumes the task. Nobody has to send a
  request, and no fairness is assumed of `Abort`. Weak fairness of `Acquire`
  alone would not serve a request that others overtake forever; requests are
  served once here, and `lock` shows it for returning requests. In `cached` no
  request fails at `record` or `replace`, where rows and markers would part, nor
  at `probe` or `infer`, where it does not have the lock.
* Lock: weak fairness of each task's resumption and of leaving the section,
  which holds because `cached` shows that the section is left. `Cancel` and new
  requests are not fair.
* Streams: weak fairness of the streaming task and of background tasks, and
  strong fairness of the end of the answer while it is being forwarded, since an
  answer has finitely many events. Interrupts and lost clients are not fair.

* Quota: weak fairness of the scheduler's loop and of time, and strong fairness
  of each statement: a database that is away now and then does not fail the same
  statement forever. Nothing is assumed of requests.
* A2A: weak fairness of each message's own steps, since every call of OGX and of
  a store returns or raises and the stream of an agent ends. Restarts and
  cancellations are not fair, and `EveryTaskEnds` excepts the tasks they end.
* Records and holder: none; only safety is checked.

## Proofs

Each theorem holds for every value of the constants that satisfies the module's
named assumption, and where it says so a hypothesis of its own.

* **ConversationCompaction.** `TypeCorrect`, then `MarkersStayAuthoritative`:
  every message that a marker counts is in the text of some marker, with or
  without a cache, in any number of workers. `MarkersAuthoritative` is not
  inductive: a marker that is about to be written has to be known to speak for
  what it counts. `CompactionInv` adds that a request's snapshot is a prefix of
  the conversation, that a marker counts only items before it, and that the
  pending chunk with the markers of the snapshot speaks for all it counts
  (`ChunkSound`). `KnowledgeInv` follows what a
  request knows from its arrival to its answer. It is preserved as long as each
  request reads its summaries faithfully (`ReadsFaithfully`): what it reads from
  the cache, and what it folds, speaks for the same messages as the markers. A
  request without a cache reads none, which gives `MarkersLoseNothing` and the
  refinement `MarkersImplementFullHistory` (hypothesis `CacheUsers = {}`).
  `LockIsNeverLeaked` is the safety half of `EveryRequestEnds`: a request holds
  the lock of its worker exactly while it is in the section
  (`LockFollowsSection`, an inductive invariant with the types), whichever read,
  fold or write fails there, so that whoever waits, waits for a request that is
  in the section.
* **One worker** (`OneWorker_proofs`). `OneRegistry` says that all requests share
  the registry of locks, as they do in one process. `OneWorkerInv` says then that
  whoever compacts holds the lock (`SectionIsLocked`), that messages are stored
  once (`MessagesAreDistinct`), that later markers count at least as much as
  earlier ones (`MarkersInOrder`) and speak only for messages beyond those that
  the earlier ones count (`MarkersTellNext`), and that the chunk being summarized
  will do so as well (`ChunkIsNext`): the markers cannot change between the fetch
  and the marker, although turns are appended meanwhile. `NothingIsToldTwice` and
  `BoundaryStays` follow, whatever the cache does. Under `ReliableCache`
  (one process and one user, every request with the cache, no INSERT of a row
  fails, and no request ends between its marker and its row or between the two
  statements of a fold) `CacheInv` says that the rows speak for what the markers
  speak for, except while a request is in `record` or `replace` (`BehindMarkers`),
  and that the rows a request holds do too. `CacheFollowsMarkers`
  follows, and, with `ReadsFaithfully` now a consequence,
  `CacheImplementsFullHistory`. The constants of the run `cached` satisfy it. No
  hypothesis can go: two workers compact at once, a second user has no rows of
  the first one's chunk, a chunk's row that is not written is what
  `cache_write_fails` shows, and a fold's what `cache_fold_fails` shows.
* **ConversationLock.** `LockInv` says that an entry is registered as long as it
  is used (`EntriesInUse`), that whoever is inside holds the lock (`HeldByOne`)
  and that the queue is totally ordered, with a free lock promised to its head
  only (`OrderedQueue`). `LockTypeCorrect`, `LockExcludes`, `EntriesAreCounted`
  and `LockIsFair` follow. `RegistryImplementsFairLock` is the refinement: there
  is a lemma for each action, which names the step of `FairLock` it is. Two facts
  carry it: rivals share the entry (`RivalsShareEntry`), so that a free or absent
  entry means that none of them is inside (`FreeForEntry`), and the queue is
  ordered, so that nobody who waits came before the task that was woken.
  `NoWakeupIsLost` is the safety half of `WaitersAreServed`: while a task waits,
  another one of its conversation is in the section or is about to be resumed
  (`NobodyStalls`). `QueueIsServed` makes this inductive: a lock that is held has
  its holder inside, and a task at the head of the queue is pending only while
  the lock is held. A waiter that is not the head has one before it, since a
  queue has a task with fewest ahead of it (`QueueHasHead`).
* **StreamTurn.** `StreamInv` says, request by request: nobody interrupts before
  the answer is asked for (`Untouched`); an interrupted stream has its
  cancellation delivered before it goes on, and deregisters before it accounts
  (`CancelledFirst`); whoever settles the turn starts the only write
  (`OneWrite`); and one of the three writers records (`OneRecorder`).
  `StreamTypeCorrect`, `TurnsStoredOnce`, `TurnsRecordedOnce` and
  `InterruptsAreFree` follow. There is one lemma per action. `KeptInv` adds that
  the turn is kept, or its write is known to have failed, as soon as somebody may
  charge or list it: whoever persists has a write of its own, and a turn is
  settled during the stream by an interrupt only. `TurnsAreKept` follows, and with
  it the refinement `TurnsAreAccountedFor`: each action leaves the account of its
  turn alone, stops, settles or charges it (`Quiet`, `Stops`, `Settles`,
  `Charges`), and that of all others alone (`StepIsLocal`).
* **Quota.** `QuotaInv` adds to the types that a request starts at the first
  limiter (`StartsAtFirst`), that the limiters it has passed have their rows
  (`PassedHaveRows`), and that whoever works or is charged has a row with each
  limiter (`ChargedHasRows`). `QuotaTypeCorrect` and `ChargesAreNotLost` follow.
  `DebtIsBounded` is about a sum over requests. `BalanceInv` says that the
  balance of a subject, less what the requests under way may still be charged to
  it, is at least 1 less the most that all of them can cost: a request is let
  through only by a positive balance, which leaves room for every request, and
  from then on what it is charged leaves the sum as it leaves the balance.
  Induction over a set being out of reach, the sum of the property is shown to
  be the number of pairs of a request and a token it owes (`Total`,
  `SumIsTotal`) by a least set for which it is not, and a request that moves
  changes one request's pairs. The assumption of the module asks for limits
  `MaxCost` and `MaxCharges` of at least 1: a request makes a call that costs
  something. `QuotasImplementLedger` is the refinement, with a lemma for each
  action that moves an account. A charge is spent exactly as it is taken: of a
  subject with several limiters, the one that is charged no longer counts, and
  the others still do (`ChargeIsNoLongerOwed`), and a call costs at most what
  was granted for it (`CallsAreWithinTheShare`). That a request gets its whole
  credit needs `Fresh`: one that is still being checked was not charged yet.
  That an account is opened while nobody may be charged to it follows from
  `PassedHaveRows` and `ChargedHasRows` (`NoRowNoDebt`).
* **ConversationRecords.** A worker numbers a turn from a maximum it read
  earlier. `RecordsInv` says of a conversation that was never deleted that the
  number a session read is still that of a turn and the count it read is at most
  that (`ReadsAreCovered`), that its row exists as soon as it has turns
  (`RowKnowsTurns`), and that a continued response has its number
  (`AcceptedAt`). If others committed in between, the next number has a row
  already and the primary key refuses it; otherwise it is above all others
  (`NextNumberIsHighest`), so that the transaction appends what it would have
  appended had it run alone: `TablesImplementTurnLog`, with a lemma for each
  kind of step. A turn's number never changes, which leaves the logs of all other
  steps as they were (`LogStays`).
  `TurnsAreNumbered`, `CountIsNeverTooHigh`, `LastResponseIsKept` and
  `ContinuationsAreChecked` follow. `CacheInv` follows a request to its cache
  entry: its turn is committed before the cache is written, and only a deletion
  takes it away (`Committed`). `CacheFollowsRecords` follows, as a conversation
  with turns that was not deleted has its row (`RowKnowsTurns`).
* **ClientHolder.** `HolderInv` says that tokens only advance (`BeganBefore`),
  that readiness checks reload in library mode only (`ReloadsLibrary`), that in
  service mode the client a request keeps is no older than the manager's token
  was when it took it (`TakenFromManager`), and that a client is initialized
  across an await in library mode only, with the manager's token, which stays
  fresh meanwhile (`InitializingFresh`), so that nobody else refreshes. `ServiceHolderIsCurrent` (in service mode the held
  client always carries the manager's token), `CallsAreNotOlder`,
  `LibraryHolderIsCurrent` and `UpdatesDoNotOverlap` (at most one request
  initializes a client, without any lock) follow; the first and the last are
  parts of the invariant that the run's properties rest on.
* **A2AExecutor.** `A2AInv` consists of four parts: what the events of a task
  can be at each point of its execution (`EventsInv`); which contexts have a
  mapping, those that were answered and those of messages that passed
  `SetContext` among them (`ContextInv`); for each store and each context that
  was never founded twice at once, that all its messages agree with the mapping
  (`HistoryInv`, `Knows`); and that an answered context is mapped to a
  conversation in which one of its messages was completed (`AnswersInv`).
  `FinalEventIsLast`, `CompletedTurnsAreStored`, `ContextsContinue` and
  `HistoryIsPreserved` follow. `TasksLiveOnce` is the refinement. `LifeInv` says
  how far the task of a message is at each point of its execution: nothing is
  answered before the agent streams, a turn that was not compacted is kept by
  the time it is answered, and every turn is settled by the time the task
  completes. A step that publishes changes what one task was told
  (`PublishTells`), and the steps of contexts, stores and workers none
  (`UntoldSteps`).

Only model-checked: liveness under fairness (`EveryRequestEnds`,
`WaitersAreServed`, `EveryStreamEnds`, `RegistryDrains`, `InterruptKeepsTheTurn`,
`ExhaustionEnds`, `EveryTaskEnds`), since the prover handles neither ENABLED nor
fairness here. Every invariant and action property of a passing run is a
theorem, those of `cached` under the hypotheses above. No proof is about a
context that was founded twice at once: what the code does there is that the
last mapping wins.

## Plan

In this order, each module with its runs, and proofs where named:

1. **Quota** with several limiters of one type, which share a row, and several
   users, in a run whose liveness part is kept small.
2. **Guardrail replacement** on the item list of `ConversationCompaction`:
   fetch, delete, create against concurrent appends and marker counts.
3. **MCP server registry** and configuration reloads; **JWK cache**.
4. **Pure algorithms** against reference definitions: authorization rules,
   partition of a conversation, markdown repair, context window resolution.
5. **Proofs** of an order of tokens for `ClientHolder`, which has no abstract
   specification of its own. With more than one worker or
   user, what compaction with a cache promises is weaker than `FullHistory` and
   has yet to be stated.

Left out on purpose: vector search and reranking (floating-point scores),
configuration synthesis, observability and telemetry (output only), and the
request validation and response formatting of each endpoint.
