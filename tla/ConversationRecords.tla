------------------------- MODULE ConversationRecords -------------------------
(***************************************************************************)
(* What the workers keep of a conversation: its row and the rows of its    *)
(* turns in the database, its existence in OGX, and its history in the     *)
(* cache (store_query_results in src/src/utils/query.py, the endpoints     *)
(* that delete conversations, resolve_response_context in                  *)
(* src/src/utils/endpoints.py).  Its items in OGX are StreamTurn's and     *)
(* ConversationCompaction's.                                               *)
(*                                                                         *)
(* store_query_results does not await, so a worker process runs it to the  *)
(* end before it does anything else.  Other workers interleave with it     *)
(* between its statements: the session reads the row of the conversation,  *)
(* then the highest turn number, and writes both rows in one transaction,  *)
(* whose locks and primary keys are all that orders the workers.  SQLite   *)
(* as the code opens it ignores the ON DELETE CASCADE of the turns,        *)
(* PostgreSQL obeys it.                                                    *)
(***************************************************************************)
EXTENDS Naturals, FiniteSets

CONSTANTS
  Requests,       \* query, streaming_query and responses requests
  Conversations,
  Workers,        \* Uvicorn worker processes
  Deletions,      \* DELETE requests of the v1 endpoint
  None,           \* no request, no conversation
  NoRow           \* a SELECT that finds nothing

ASSUME RecordsAssumption ==
  /\ None \notin Requests \cup Conversations
  /\ NoRow \notin [count : Nat, last : Requests \cup {None}]
  /\ IsFiniteSet(Requests)

VARIABLES
  cascade,   \* deleting a conversation deletes its turns (PostgreSQL)
  row,       \* rows of user_conversation: message_count, last_response_id
  number,    \* turn_number of the row a request has in user_turn, or 0
  ogx,       \* conversations OGX has
  cache,     \* the requests whose entry is in the conversation cache
  phase,     \* where a request is
  conv,      \* its conversation
  worker,    \* the process that serves it
  parent,    \* the response its previous_response_id names
  blocked,   \* it was answered by a moderation refusal, id modr...
  seen,      \* the row its session read
  top,       \* the highest turn number its session read
  deletion,  \* what a DELETE request does, and to which conversation
  erased,    \* observer: conversations whose row was deleted once
  since      \* observer: highest turn number when the request was accepted

tables == <<row, number>>
request == <<conv, worker, parent, blocked, seen, top, since>>
vars == <<cascade, tables, ogx, cache, phase, request, deletion,
          erased>>

\* Turn numbers are at most the number of requests.
Numbers == 0..Cardinality(Requests)

\* Phases in which the worker is inside store_query_results.
Storing == {"readingTurns", "committing", "caching"}

TurnsOf(c) == {r \in Requests : conv[r] = c /\ number[r] > 0}

\* n is what SELECT max(turn_number) finds, 0 for no rows.
IsTop(c, n) ==
  /\ n = 0 \/ \E r \in TurnsOf(c) : number[r] = n
  /\ \A r \in TurnsOf(c) : number[r] <= n

\* The event loop of the worker is not held by store_query_results.
Free(w) == \A r \in Requests : worker[r] = w => phase[r] \notin Storing

Fresh(c) == \A r \in Requests : conv[r] # c

Init ==
  /\ cascade \in BOOLEAN
  /\ row = [c \in Conversations |-> NoRow]
  /\ number = [r \in Requests |-> 0]
  /\ ogx = {}
  /\ cache = {}
  /\ phase = [r \in Requests |-> "idle"]
  /\ conv = [r \in Requests |-> None]
  /\ worker = [r \in Requests |-> None]
  /\ parent = [r \in Requests |-> None]
  /\ blocked = [r \in Requests |-> FALSE]
  /\ seen = [r \in Requests |-> NoRow]
  /\ top = [r \in Requests |-> 0]
  /\ deletion = [d \in Deletions |-> [phase |-> "idle", conv |-> None]]
  /\ erased = {}
  /\ since = [r \in Requests |-> 0]
-----------------------------------------------------------------------------
(***************************************************************************)
(* A request is accepted.                                                  *)
(***************************************************************************)

Accept(r, w, c, p) ==
  /\ phase[r] = "idle" /\ Free(w)
  /\ phase' = [phase EXCEPT ![r] = "running"]
  /\ conv' = [conv EXCEPT ![r] = c]
  /\ worker' = [worker EXCEPT ![r] = w]
  /\ parent' = [parent EXCEPT ![r] = p]
  /\ \E n \in Numbers : IsTop(c, n) /\ since' = [since EXCEPT ![r] = n]
  /\ UNCHANGED <<cascade, tables, cache, blocked, seen, top, deletion,
                 erased>>

\* No context: OGX creates a conversation.
StartNew(r, w, c) ==
  /\ Fresh(c)
  /\ Accept(r, w, c, None)
  /\ ogx' = ogx \cup {c}

\* Context by conversation: its row must exist.
StartInConversation(r, w, c) ==
  /\ row[c] # NoRow
  /\ Accept(r, w, c, None)
  /\ UNCHANGED ogx

\* Mutant: a request always continues the conversation of its parent.
NeverFork(p) == FALSE

\* The response p is not the one the row of its conversation names.
MustFork(p) == row[conv[p]].last \notin {None, p}

\* Context by previous_response_id: the turn and the row of its conversation
\* must exist, and a refusal cannot be named.  Only the responses endpoint
\* takes one: a request with a parent is no stream of streaming_query.
StartFromResponse(r, w, p) ==
  /\ p # r /\ number[p] > 0 /\ ~blocked[p]
  /\ row[conv[p]] # NoRow
  /\ IF MustFork(p)
     THEN \E c \in Conversations :
            Fresh(c) /\ Accept(r, w, c, p) /\ ogx' = ogx \cup {c}
     ELSE Accept(r, w, conv[p], p) /\ UNCHANGED ogx
-----------------------------------------------------------------------------
(***************************************************************************)
(* It is answered, and its turn stored.                                    *)
(***************************************************************************)

Answered(r, refusal) ==
  /\ phase[r] = "running"
  /\ phase' = [phase EXCEPT ![r] = "answered"]
  /\ blocked' = [blocked EXCEPT ![r] = refusal]
  /\ UNCHANGED <<cascade, tables, ogx, cache, conv, worker, parent, seen, top,
                 since, deletion, erased>>

\* The model answers or a shield refuses, and the turn is stored in OGX: by
\* OGX itself, or by an append whose failure ends the request.
Answer(r, refusal) == conv[r] \in ogx /\ Answered(r, refusal)

\* A stream of streaming_query appends its compacted turn, and one that was
\* interrupted the turn it has, after the client was answered: a failure is
\* logged, and the request goes on as if the turn was stored.
AnswerUnstored(r) == parent[r] = None /\ Answered(r, FALSE)

\* The transcript is stored, and the session reads the conversation.
ReadConversation(r) ==
  /\ phase[r] = "answered" /\ Free(worker[r])
  /\ phase' = [phase EXCEPT ![r] = "readingTurns"]
  /\ seen' = [seen EXCEPT ![r] = row[conv[r]]]
  /\ UNCHANGED <<cascade, tables, ogx, cache, conv, worker, parent,
                 blocked, top, since, deletion, erased>>

ReadTopTurn(r) ==
  /\ phase[r] = "readingTurns"
  /\ phase' = [phase EXCEPT ![r] = "committing"]
  /\ \E n \in Numbers : IsTop(conv[r], n) /\ top' = [top EXCEPT ![r] = n]
  /\ UNCHANGED <<cascade, tables, ogx, cache, conv, worker, parent,
                 blocked, seen, since, deletion, erased>>

\* Mutant: user_turn has no primary key over the turn number.
RejectedByRowOnly(r) == (seen[r] = NoRow) # (row[conv[r]] = NoRow)

\* The primary keys: (conversation_id, turn_number), and id for an INSERT of
\* the conversation; an UPDATE has to find its row.
Rejected(r) ==
  \/ \E q \in TurnsOf(conv[r]) : number[q] = top[r] + 1
  \/ (seen[r] = NoRow) # (row[conv[r]] = NoRow)

\* Mutant: a refusal is remembered as the last response.
NewRowForRefusals(r) ==
  [count |-> IF seen[r] = NoRow THEN 1 ELSE seen[r].count + 1, last |-> r]

\* Mutant: a new row is written without last_response_id.
NewRowIncomplete(r) ==
  IF seen[r] = NoRow
  THEN [count |-> 1]
  ELSE [count |-> seen[r].count + 1, last |-> r]

\* The row after the INSERT, or after the UPDATE of the columns that changed.
NewRow(r) ==
  IF seen[r] = NoRow
  THEN [count |-> 1, last |-> IF blocked[r] THEN None ELSE r]
  ELSE [count |-> seen[r].count + 1,
        last  |-> IF blocked[r] THEN row[conv[r]].last ELSE r]

\* Mutant: the conversation is committed before its turn, which may fail.
CommitInTwo(r) ==
  /\ phase[r] = "committing"
  /\ row' = IF RejectedByRowOnly(r)
            THEN row ELSE [row EXCEPT ![conv[r]] = NewRow(r)]
  /\ \/ phase' = [phase EXCEPT ![r] = "failed"] /\ UNCHANGED number
     \/ /\ ~Rejected(r)
        /\ phase' = [phase EXCEPT ![r] = "caching"]
        /\ number' = [number EXCEPT ![r] = top[r] + 1]
  /\ UNCHANGED <<cascade, ogx, cache, request, deletion, erased>>

\* Mutant: a database error is logged and the turn goes to the cache.
CommitLogged(r) ==
  /\ phase[r] = "committing"
  /\ phase' = [phase EXCEPT ![r] = "caching"]
  /\ IF Rejected(r)
     THEN UNCHANGED tables
     ELSE /\ row' = [row EXCEPT ![conv[r]] = NewRow(r)]
          /\ number' = [number EXCEPT ![r] = top[r] + 1]
  /\ UNCHANGED <<cascade, ogx, cache, request, deletion, erased>>

Commit(r) ==
  /\ phase[r] = "committing"
  /\ IF Rejected(r)
     THEN phase' = [phase EXCEPT ![r] = "failed"] /\ UNCHANGED tables
     ELSE /\ phase' = [phase EXCEPT ![r] = "caching"]
          /\ row' = [row EXCEPT ![conv[r]] = NewRow(r)]
          /\ number' = [number EXCEPT ![r] = top[r] + 1]
  /\ UNCHANGED <<cascade, ogx, cache, request, deletion, erased>>

StoreInCache(r) ==
  /\ phase[r] = "caching"
  /\ phase' = [phase EXCEPT ![r] = "done"]
  /\ cache' = cache \cup {r}
  /\ UNCHANGED <<cascade, tables, ogx, request, deletion, erased>>

\* The model, the transcript, the database or the cache fails: the request
\* ends with an error and what was stored before stays.
Fail(r) ==
  /\ phase[r] \in {"running", "answered"} \cup Storing
  /\ phase' = [phase EXCEPT ![r] = "failed"]
  /\ UNCHANGED <<cascade, tables, ogx, cache, request, deletion,
                 erased>>
-----------------------------------------------------------------------------
(***************************************************************************)
(* Deletion: v1 deletes from the database and then from OGX, v2 from the   *)
(* cache alone.                                                            *)
(***************************************************************************)

DeleteRow(d, c) ==
  /\ deletion[d].phase = "idle"
  /\ \E w \in Workers : Free(w)
  /\ deletion' = [deletion EXCEPT ![d] = [phase |-> "remote", conv |-> c]]
  /\ row' = [row EXCEPT ![c] = NoRow]
  /\ number' = [r \in Requests |->
                  IF cascade /\ row[c] # NoRow /\ conv[r] = c
                  THEN 0 ELSE number[r]]
  /\ erased' = IF row[c] = NoRow THEN erased ELSE erased \cup {c}
  /\ UNCHANGED <<cascade, ogx, cache, phase, request>>

\* OGX deletes the conversation, or has no such conversation.
DeleteInOgx(d) ==
  /\ deletion[d].phase = "remote"
  /\ deletion' = [deletion EXCEPT ![d].phase = "done"]
  /\ ogx' = ogx \ {deletion[d].conv}
  /\ UNCHANGED <<cascade, tables, cache, phase, request, erased>>

\* OGX cannot be reached: 503, with the row gone.
DeleteUnavailable(d) ==
  /\ deletion[d].phase = "remote"
  /\ deletion' = [deletion EXCEPT ![d].phase = "failed"]
  /\ UNCHANGED <<cascade, tables, ogx, cache, phase, request, erased>>

DeleteFromCache(c) ==
  /\ \E w \in Workers : Free(w)
  /\ \E r \in cache : conv[r] = c
  /\ cache' = {r \in cache : conv[r] # c}
  /\ UNCHANGED <<cascade, tables, ogx, phase, request, deletion,
                 erased>>
-----------------------------------------------------------------------------
Start(r) ==
  \E w \in Workers :
    \/ \E c \in Conversations : StartNew(r, w, c) \/ StartInConversation(r, w, c)
    \/ \E p \in Requests : StartFromResponse(r, w, p)

Store(r) ==
  ReadConversation(r) \/ ReadTopTurn(r) \/ Commit(r) \/ StoreInCache(r)

Delete(d) ==
  \/ \E c \in Conversations : DeleteRow(d, c)
  \/ DeleteInOgx(d)
  \/ DeleteUnavailable(d)

Next ==
  \/ \E r \in Requests :
       \/ Start(r)
       \/ \E refusal \in BOOLEAN : Answer(r, refusal)
       \/ AnswerUnstored(r)
       \/ Store(r)
       \/ Fail(r)
  \/ \E d \in Deletions : Delete(d)
  \/ \E c \in Conversations : DeleteFromCache(c)

Spec == Init /\ [][Next]_vars
-----------------------------------------------------------------------------
TypeOK ==
  /\ cascade \in BOOLEAN
  /\ row \in [Conversations ->
                [count : Nat, last : Requests \cup {None}] \cup {NoRow}]
  /\ number \in [Requests -> Nat]
  /\ ogx \in SUBSET Conversations
  /\ cache \in SUBSET Requests
  /\ phase \in [Requests -> {"idle", "running", "answered", "done", "failed"}
                              \cup Storing]
  /\ conv \in [Requests -> Conversations \cup {None}]
  /\ worker \in [Requests -> Workers \cup {None}]
  /\ parent \in [Requests -> Requests \cup {None}]
  /\ blocked \in [Requests -> BOOLEAN]
  /\ seen \in [Requests ->
                 [count : Nat, last : Requests \cup {None}] \cup {NoRow}]
  /\ top \in [Requests -> Numbers]
  /\ deletion \in [Deletions ->
                     [phase : {"idle", "remote", "done", "failed"},
                      conv : Conversations \cup {None}]]
  /\ erased \in SUBSET Conversations
  /\ since \in [Requests -> Numbers]

\* Turns of the conversation were never deleted.
Intact(c) == ~cascade \/ c \notin erased

\* The turns of a conversation are numbered 1, 2, 3, ... without a gap and
\* without a number used twice, although every worker computes the number of
\* its turn from a maximum it read before the others committed
\* (persist_user_conversation_details).
TurnsNumberedInOrder ==
  \A c \in Conversations : Intact(c) =>
    \A r \in TurnsOf(c) :
      /\ \A n \in 1..number[r] : \E q \in TurnsOf(c) : number[q] = n
      /\ \A q \in TurnsOf(c) : number[q] = number[r] => q = r

\* message_count, incremented from a value read before, is never more than
\* the number of turns the database has: an update may be lost, but a turn
\* is not counted twice.
CountWithinTurns ==
  \A c \in Conversations :
    Intact(c) /\ row[c] # NoRow =>
      \E r \in TurnsOf(c) : number[r] >= row[c].count

\* last_response_id, by which the responses endpoint tells a continuation
\* from a fork, names the answered turn with the highest number, although the
\* last commit and not the highest number wins the column.
LastResponseIsLatest ==
  \A c \in Conversations :
    Intact(c) /\ row[c] # NoRow /\ row[c].last # None =>
      LET l == row[c].last IN
        /\ l \in TurnsOf(c) /\ ~blocked[l]
        /\ \A r \in TurnsOf(c) : ~blocked[r] => number[r] <= number[l]

\* A request that continues from a response without a fork continues from the
\* latest answer its conversation had when the request was accepted
\* (resolve_response_context).
ContinuesLatest ==
  \A r \in Requests :
    /\ parent[r] # None
    /\ conv[r] = conv[parent[r]]
    /\ conv[r] \notin erased
    => \A q \in TurnsOf(conv[r]) :
         ~blocked[q] /\ number[q] <= since[r] => number[q] <= number[parent[r]]

\* What the cache lists can be continued and deleted: a cached entry has its
\* turn and the row of its conversation in the database, unless the row was
\* deleted, in whatever order workers commit, fail, delete and cache
\* (store_query_results writes the cache last, and only after its commit).
CachedIsRecorded ==
  \A r \in cache :
    \/ conv[r] \in erased
    \/ number[r] > 0 /\ row[conv[r]] # NoRow

\* The turns in the order of their numbers, and the last response.  A deletion
\* that takes the turns with it ends the log.
LogOf(c) ==
  IF Intact(c)
  THEN LET turns == TurnsOf(c)
       IN  [n \in {number[q] : q \in turns} |->
              LET r == CHOOSE q \in turns : number[q] = n
              IN  [request |-> r, refused |-> blocked[r]]]
  ELSE <<>>
LastOf(c) == IF Intact(c) /\ row[c] # NoRow THEN row[c].last ELSE None

TurnTable == INSTANCE TurnLog WITH
  log <- [c \in Conversations |-> LogOf(c)],
  last <- [c \in Conversations |-> LastOf(c)]

\* Sessions that read the row, read the highest number and commit, in workers
\* that interleave and without any lock, implement a log that is appended to in
\* one step: the primary keys refuse every commit that is not such a step.
ImplementsTurnLog == TurnTable!Spec
=============================================================================
