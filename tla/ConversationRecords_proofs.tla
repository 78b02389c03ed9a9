---------------------- MODULE ConversationRecords_proofs ----------------------
(***************************************************************************)
(* Turn numbers without gaps or duplicates, a message count that is never  *)
(* too high, and a last response that is the latest answer, for any        *)
(* numbers of workers, requests and deletions.                             *)
(*                                                                         *)
(* The argument: while the turns of a conversation are never deleted,      *)
(* their numbers form an initial segment of 1, 2, 3, ...  Whoever is about *)
(* to commit read a number n that is 0 or has a turn, and a message count  *)
(* that is at most n.  If turns were committed in between, n + 1 has a     *)
(* turn already and the primary key rejects the commit; otherwise n + 1 is *)
(* the next number, above all others.                                      *)
(***************************************************************************)
EXTENDS ConversationRecords, TLAPS, FiniteSetTheorems, SequenceTheorems

(* What a request has done shows in its phase.                             *)
Located(r) ==
  /\ phase[r] # "idle" => conv[r] \in Conversations
  /\ number[r] > 0 => phase[r] \in {"caching", "done", "failed"}
  /\ parent[r] # None => phase[parent[r]] # "idle"
  /\ phase[r] = "running" => number[r] = 0

(* The row a session read counts turns that are still there, and the       *)
(* number it read is still that of a turn.                                 *)
ReadsAreCovered(r) ==
  Intact(conv[r]) =>
    /\ phase[r] \in {"readingTurns", "committing"} /\ seen[r] # NoRow =>
         \E q \in TurnsOf(conv[r]) : number[q] >= seen[r].count
    /\ phase[r] = "committing" =>
         /\ top[r] = 0 \/ \E q \in TurnsOf(conv[r]) : number[q] = top[r]
         /\ seen[r] # NoRow => top[r] >= seen[r].count

(* A conversation never deleted: its first turn writes its row, and the    *)
(* row names no answer only if there is none.                              *)
RowKnowsTurns(c) ==
  c \notin erased =>
    /\ row[c] = NoRow => TurnsOf(c) = {}
    /\ row[c] # NoRow /\ row[c].last = None => \A r \in TurnsOf(c) : blocked[r]

(* The number a conversation had reached when a request was accepted, and  *)
(* the response the request continues.                                     *)
AcceptedAt(r) ==
  conv[r] \in Conversations \ erased =>
    /\ since[r] = 0 \/ \E q \in TurnsOf(conv[r]) : number[q] = since[r]
    /\ parent[r] # None /\ conv[r] = conv[parent[r]] => number[parent[r]] > 0

RecordsInv ==
  /\ TypeOK
  /\ \A r \in Requests : Located(r) /\ ReadsAreCovered(r) /\ AcceptedAt(r)
  /\ \A c \in Conversations : RowKnowsTurns(c)
  /\ TurnsNumberedInOrder
  /\ CountWithinTurns
  /\ LastResponseIsLatest
  /\ ContinuesLatest

-----------------------------------------------------------------------------
LEMMA NumbersAreNatural == 0 \in Numbers /\ \A n \in Numbers : n \in Nat /\ n + 1 \in Nat
  BY FS_CardinalityType, RecordsAssumption DEF RecordsAssumption, Numbers

(* Types, action by action.                                                *)
LEMMA AcceptTypes ==
  ASSUME TypeOK, NEW r \in Requests, NEW w \in Workers, NEW c \in Conversations,
         NEW p \in Requests \cup {None}, Accept(r, w, c, p),
         ogx' \in SUBSET Conversations
  PROVE  TypeOK'
  BY DEF TypeOK, Accept, tables

LEMMA StartTypes ==
  ASSUME TypeOK, NEW r \in Requests, Start(r),
         \A p \in Requests : number[p] > 0 => conv[p] \in Conversations
  PROVE  TypeOK'
<1>1. PICK w \in Workers :
        \/ \E c \in Conversations : StartNew(r, w, c) \/ StartInConversation(r, w, c)
        \/ \E p \in Requests : StartFromResponse(r, w, p)
  BY DEF Start
<1>2. CASE \E c \in Conversations : StartNew(r, w, c) \/ StartInConversation(r, w, c)
  BY <1>2, AcceptTypes DEF StartNew, StartInConversation, TypeOK
<1>3. ASSUME NEW p \in Requests, StartFromResponse(r, w, p)
      PROVE  TypeOK'
  <2>1. CASE MustFork(p)
    BY <1>3, <2>1, AcceptTypes DEF StartFromResponse, TypeOK
  <2>2. CASE ~MustFork(p)
    <3>1. conv[p] \in Conversations
      BY <1>3 DEF StartFromResponse
    <3>2. QED
      BY <1>3, <2>2, <3>1, AcceptTypes DEF StartFromResponse, TypeOK
  <2>3. QED
    BY <2>1, <2>2
<1>4. QED
  BY <1>1, <1>2, <1>3

LEMMA StoreTypes ==
  ASSUME TypeOK, NEW r \in Requests, conv[r] \in Conversations, Store(r)
  PROVE  TypeOK'
<1>1. CASE ReadConversation(r)
  BY <1>1 DEF TypeOK, ReadConversation, tables, Storing
<1>2. CASE ReadTopTurn(r)
  BY <1>2 DEF TypeOK, ReadTopTurn, tables, Storing
<1>3. CASE Commit(r)
  <2>1. CASE Rejected(r)
    BY <1>3, <2>1 DEF TypeOK, Commit, tables, request, Storing
  <2>2. CASE ~Rejected(r)
    <3>1. top[r] + 1 \in Nat
      <4>1. top[r] \in Numbers
        BY DEF TypeOK
      <4>2. QED
        BY <4>1, NumbersAreNatural
    <3>2. NewRow(r) \in [count : Nat, last : Requests \cup {None}]
      BY <2>2 DEF NewRow, Rejected, TypeOK
    <3>3. QED
      BY <1>3, <2>2, <3>1, <3>2 DEF TypeOK, Commit, request, Storing
  <2>3. QED
    BY <2>1, <2>2
<1>4. CASE StoreInCache(r)
  BY <1>4 DEF TypeOK, StoreInCache, tables, request, Storing
<1>5. QED
  BY <1>1, <1>2, <1>3, <1>4 DEF Store

LEMMA DeleteTypes ==
  ASSUME TypeOK, NEW d \in Deletions, Delete(d)
  PROVE  TypeOK'
<1>1. ASSUME NEW c \in Conversations, DeleteRow(d, c)
      PROVE  TypeOK'
  BY <1>1 DEF TypeOK, DeleteRow, request
<1>2. CASE DeleteInOgx(d)
  BY <1>2 DEF TypeOK, DeleteInOgx, tables, request
<1>3. CASE DeleteUnavailable(d)
  BY <1>3 DEF TypeOK, DeleteUnavailable, tables, request
<1>4. QED
  BY <1>1, <1>2, <1>3 DEF Delete

-----------------------------------------------------------------------------
(* Steps that leave the turns and the rows alone.                          *)
LEMMA QuietStep ==
  ASSUME RecordsInv, TypeOK', UNCHANGED <<cascade, tables, conv, parent, since, erased>>,
         \A q \in Requests :
           /\ number[q] > 0 => blocked'[q] = blocked[q]
           /\ phase'[q] = "idle" <=> phase[q] = "idle"
           /\ phase[q] \in {"caching", "done", "failed"}
                => phase'[q] \in {"caching", "done", "failed"}
           /\ phase'[q] = "running" => phase[q] = "running"
           /\ ReadsAreCovered(q)'
  PROVE  RecordsInv'
<1> USE DEF tables
<1>1. /\ \A c : TurnsOf(c)' = TurnsOf(c) /\ (Intact(c)' <=> Intact(c))
      /\ \A c : \A q \in TurnsOf(c) : q \in Requests /\ number[q] > 0
  BY DEF TurnsOf, Intact
<1>2. \A q \in Requests : parent[q] \in Requests \cup {None}
  BY DEF RecordsInv, TypeOK
<1>3. \A q \in Requests : Located(q)'
  BY <1>2 DEF RecordsInv, Located
<1>4. \A q \in Requests : AcceptedAt(q)'
  BY <1>1 DEF RecordsInv, AcceptedAt
<1>5. \A c \in Conversations : RowKnowsTurns(c)'
  BY <1>1 DEF RecordsInv, RowKnowsTurns
<1>6. TurnsNumberedInOrder'
  BY <1>1 DEF RecordsInv, TurnsNumberedInOrder
<1>7. CountWithinTurns'
  BY <1>1 DEF RecordsInv, CountWithinTurns
<1>8. LastResponseIsLatest'
  BY <1>1 DEF RecordsInv, LastResponseIsLatest
<1>9. ContinuesLatest'
  BY <1>1 DEF RecordsInv, ContinuesLatest
<1>10. QED
  BY <1>3, <1>4, <1>5, <1>6, <1>7, <1>8, <1>9 DEF RecordsInv

(* A request is accepted: it has no turn, and the response it continues is *)
(* the latest answer.                                                      *)
LEMMA AcceptStep ==
  ASSUME RecordsInv, TypeOK', NEW r \in Requests, NEW w, NEW c \in Conversations,
         NEW p \in Requests \cup {None}, Accept(r, w, c, p),
         p # None =>
           /\ p # r /\ number[p] > 0
           /\ c = conv[p] /\ c \notin erased =>
                \A q \in TurnsOf(c) : ~blocked[q] => number[q] <= number[p]
  PROVE  RecordsInv'
<1> USE DEF tables
<1>1. /\ phase[r] = "idle" /\ ~(number[r] > 0)
      /\ phase'[r] = "running" /\ conv'[r] = c /\ parent'[r] = p
      /\ \A q \in Requests \ {r} :
           phase'[q] = phase[q] /\ conv'[q] = conv[q] /\ parent'[q] = parent[q]
             /\ since'[q] = since[q]
      /\ IsTop(c, since'[r])
      /\ UNCHANGED <<cascade, row, number, blocked, seen, top, erased>>
  <2>1. Located(r) /\ conv \in [Requests -> Conversations \cup {None}]
    BY DEF RecordsInv, TypeOK
  <2>2. phase[r] = "idle" /\ ~(number[r] > 0)
    BY <2>1 DEF Accept, Located
  <2>3. phase'[r] = "running" /\ conv'[r] = c /\ parent'[r] = p
    BY DEF RecordsInv, TypeOK, Accept
  <2>4. \A q \in Requests \ {r} :
          phase'[q] = phase[q] /\ conv'[q] = conv[q] /\ parent'[q] = parent[q]
            /\ since'[q] = since[q]
    BY DEF RecordsInv, TypeOK, Accept
  <2>5. IsTop(c, since'[r])
    BY DEF RecordsInv, TypeOK, Accept
  <2>6. QED
    BY <2>2, <2>3, <2>4, <2>5 DEF Accept
<1>2. /\ \A x : TurnsOf(x)' = TurnsOf(x) /\ (Intact(x)' <=> Intact(x))
      /\ \A x : \A q \in TurnsOf(x) :
           q \in Requests /\ q # r /\ number[q] > 0 /\ conv[q] = x
  BY <1>1 DEF TurnsOf, Intact
<1>3. /\ \A q \in Requests : parent[q] \in Requests \cup {None}
      /\ None \notin Requests
      /\ \A q \in Requests : parent[q] # None => parent[q] # r
      /\ p # None => p \in Requests /\ phase[p] # "idle"
      /\ \A q \in Requests : number[q] \in Nat
  <2>1. /\ \A q \in Requests : parent[q] \in Requests \cup {None} /\ number[q] \in Nat
        /\ None \notin Requests
    BY RecordsAssumption DEF RecordsInv, TypeOK, RecordsAssumption
  <2>2. \A q \in Requests : parent[q] # None => parent[q] # r
    BY <1>1, <2>1 DEF RecordsInv, Located
  <2>3. p # None => p \in Requests /\ phase[p] # "idle"
    BY <1>1, <2>1 DEF RecordsInv, Located
  <2>4. QED
    BY <2>1, <2>2, <2>3
<1>4. \A q \in Requests : Located(q)'
  BY <1>1, <1>3 DEF RecordsInv, Located
<1>5. \A q \in Requests : ReadsAreCovered(q)'
  BY <1>1, <1>2 DEF RecordsInv, ReadsAreCovered
<1>6. \A q \in Requests : AcceptedAt(q)'
  <2>1. AcceptedAt(r)'
    BY <1>1, <1>2, <1>3 DEF AcceptedAt, IsTop
  <2>2. \A q \in Requests \ {r} : AcceptedAt(q)'
    BY <1>1, <1>2, <1>3 DEF RecordsInv, AcceptedAt
  <2>3. QED
    BY <2>1, <2>2
<1>7. \A x \in Conversations : RowKnowsTurns(x)'
  BY <1>1, <1>2 DEF RecordsInv, RowKnowsTurns
<1>8. TurnsNumberedInOrder' /\ CountWithinTurns' /\ LastResponseIsLatest'
  <2>1. TurnsNumberedInOrder'
    BY <1>1, <1>2 DEF RecordsInv, TurnsNumberedInOrder
  <2>2. CountWithinTurns'
    BY <1>1, <1>2 DEF RecordsInv, CountWithinTurns
  <2>3. LastResponseIsLatest'
    BY <1>1, <1>2 DEF RecordsInv, LastResponseIsLatest
  <2>4. QED
    BY <2>1, <2>2, <2>3
<1>9. ContinuesLatest'
  <2>1. ASSUME NEW x \in Requests, parent'[x] # None,
               conv'[x] = conv'[parent'[x]], conv'[x] \notin erased,
               NEW q \in TurnsOf(conv'[x]), ~blocked[q], number[q] <= since'[x]
        PROVE  number[q] <= number[parent'[x]]
    <3>1. CASE x = r
      BY <1>1, <1>3, <2>1, <3>1
    <3>2. CASE x # r
      BY <1>1, <1>3, <2>1, <3>2 DEF RecordsInv, ContinuesLatest
    <3>3. QED
      BY <3>1, <3>2
  <2>2. QED
    BY <1>1, <1>2, <2>1 DEF ContinuesLatest
<1>10. QED
  BY <1>4, <1>5, <1>6, <1>7, <1>8, <1>9 DEF RecordsInv

LEMMA StartStep ==
  ASSUME RecordsInv, TypeOK', NEW r \in Requests, Start(r)
  PROVE  RecordsInv'
<1>1. PICK w \in Workers :
        \/ \E c \in Conversations : StartNew(r, w, c) \/ StartInConversation(r, w, c)
        \/ \E p \in Requests : StartFromResponse(r, w, p)
  BY DEF Start
<1>2. CASE \E c \in Conversations : StartNew(r, w, c) \/ StartInConversation(r, w, c)
  BY <1>2, AcceptStep DEF StartNew, StartInConversation
<1>3. ASSUME NEW p \in Requests, StartFromResponse(r, w, p)
      PROVE  RecordsInv'
  <2>1. /\ p # r /\ number[p] > 0 /\ ~blocked[p] /\ row[conv[p]] # NoRow
        /\ conv[p] \in Conversations /\ p \in TurnsOf(conv[p]) /\ p # None
    BY <1>3, RecordsAssumption
       DEF StartFromResponse, RecordsInv, Located, TurnsOf, RecordsAssumption
  <2>2. CASE MustFork(p)
    <3>1. PICK c \in Conversations : Fresh(c) /\ Accept(r, w, c, p)
      BY <1>3, <2>2 DEF StartFromResponse
    <3>2. c # conv[p]
      BY <3>1 DEF Fresh
    <3>3. QED
      BY <2>1, <3>1, <3>2, AcceptStep
  <2>3. CASE ~MustFork(p)
    <3>1. conv[p] \notin erased =>
            \A q \in TurnsOf(conv[p]) : ~blocked[q] => number[q] <= number[p]
      BY <2>1, <2>3
         DEF MustFork, RecordsInv, RowKnowsTurns, LastResponseIsLatest, Intact
    <3>2. Accept(r, w, conv[p], p)
      BY <1>3, <2>3 DEF StartFromResponse
    <3>3. QED
      BY <2>1, <3>1, <3>2, AcceptStep
  <2>4. QED
    BY <2>2, <2>3
<1>4. QED
  BY <1>1, <1>2, <1>3

-----------------------------------------------------------------------------
(* The commit: the next number is above all others, or has a turn already. *)
LEMMA NextNumberIsHighest ==
  ASSUME RecordsInv, NEW r \in Requests, phase[r] = "committing", ~Rejected(r),
         Intact(conv[r])
  PROVE  \A q \in TurnsOf(conv[r]) : number[q] < top[r] + 1
<1> DEFINE c == conv[r]
<1>1. c \in Conversations /\ top[r] \in Nat
  <2>1. top[r] \in Numbers
    BY DEF RecordsInv, TypeOK
  <2>2. QED
    BY <2>1, NumbersAreNatural DEF RecordsInv, Located
<1>2. SUFFICES ASSUME NEW q \in TurnsOf(c), number[q] >= top[r] + 1
               PROVE  FALSE
  <2>1. \A q \in TurnsOf(c) : number[q] \in Nat
    BY DEF TurnsOf, RecordsInv, TypeOK
  <2>2. QED
    BY <1>1, <1>2, <2>1
<1>3. top[r] + 1 \in 1..number[q]
  BY <1>1, <1>2 DEF TurnsOf, RecordsInv, TypeOK
<1>4. \E x \in TurnsOf(c) : number[x] = top[r] + 1
  BY <1>1, <1>2, <1>3 DEF RecordsInv, TurnsNumberedInOrder
<1>5. QED
  BY <1>4 DEF Rejected

LEMMA CommitStep ==
  ASSUME RecordsInv, TypeOK', NEW r \in Requests, Commit(r), ~Rejected(r),
         NEW c \in Conversations, c = conv[r], NEW n \in Nat, n = top[r] + 1
  PROVE  RecordsInv'
<1>1. /\ phase[r] = "committing" /\ phase'[r] = "caching"
      /\ \A q \in Requests \ {r} : phase'[q] = phase[q] /\ number'[q] = number[q]
      /\ number[r] = 0 /\ number'[r] = n
      /\ row'[c] = NewRow(r) /\ row'[c] # NoRow
      /\ \A x \in Conversations \ {c} : row'[x] = row[x]
      /\ UNCHANGED <<cascade, conv, parent, blocked, seen, top, since, erased>>
  <2>1. phase[r] = "committing" /\ number[r] = 0
    <3>1. phase[r] = "committing"
      BY DEF Commit
    <3>2. number[r] \in Nat /\ ~(number[r] > 0)
      BY <3>1 DEF RecordsInv, Located, TypeOK
    <3>3. QED
      BY <3>1, <3>2
  <2>2. NewRow(r) # NoRow
    <3>1. NewRow(r) \in [count : Nat, last : Requests \cup {None}]
      BY <2>1 DEF NewRow, Rejected, RecordsInv, TypeOK
    <3>2. QED
      BY <3>1, RecordsAssumption DEF RecordsAssumption
  <2>3. QED
    BY <2>1, <2>2 DEF Commit, RecordsInv, TypeOK, request
<1>2. n > 0 /\ top[r] \in Nat /\ \A q \in Requests : number[q] \in Nat
  <2>1. top[r] \in Numbers /\ \A q \in Requests : number[q] \in Nat
    BY DEF RecordsInv, TypeOK
  <2>2. top[r] \in Nat
    BY <2>1, NumbersAreNatural
  <2>3. QED
    BY <2>1, <2>2
<1>3. /\ TurnsOf(c)' = TurnsOf(c) \cup {r} /\ r \notin TurnsOf(c)
      /\ \A x : x # c => TurnsOf(x)' = TurnsOf(x)
      /\ \A x : Intact(x)' <=> Intact(x)
      /\ \A x : \A q \in TurnsOf(x) :
           q \in Requests /\ q # r /\ number'[q] = number[q] /\ conv[q] = x
  BY <1>1, <1>2 DEF TurnsOf, Intact
<1>4. \A x : c \notin erased => Intact(c)
  BY DEF Intact
<1>5. Intact(c) => \A q \in TurnsOf(c) : number[q] < n
  <2>1. Intact(conv[r]) => \A q \in TurnsOf(conv[r]) : number[q] < top[r] + 1
    BY <1>1, NextNumberIsHighest
  <2>2. QED
    BY <2>1 DEF Intact, TurnsOf
<1>6. \A q \in Requests : Located(q)'
  <2>1. \A q \in Requests : parent[q] \in Requests \cup {None}
    BY DEF RecordsInv, TypeOK
  <2>2. \A q \in Requests : phase'[q] = "idle" => phase[q] = "idle"
    BY <1>1
  <2>3. \A q \in Requests : parent[q] # None => phase'[parent[q]] # "idle"
    BY <2>1, <2>2 DEF RecordsInv, Located
  <2>4. QED
    BY <1>1, <2>3 DEF RecordsInv, Located
<1>7. \A q \in Requests : ReadsAreCovered(q)'
  <2>1. ReadsAreCovered(r)'
    BY <1>1 DEF ReadsAreCovered
  <2>2. ASSUME NEW q \in Requests \ {r}
        PROVE  ReadsAreCovered(q)'
    <3>1. ReadsAreCovered(q)
      BY DEF RecordsInv
    <3>2. \A x \in TurnsOf(conv[q]) : x \in TurnsOf(conv[q])' /\ number'[x] = number[x]
      BY <1>1, <1>2 DEF TurnsOf
    <3>3. QED
      BY <1>1, <1>3, <3>1, <3>2 DEF ReadsAreCovered
  <2>3. QED
    BY <2>1, <2>2
<1>8. \A q \in Requests : AcceptedAt(q)'
  <2>1. ASSUME NEW q \in Requests
        PROVE  AcceptedAt(q)'
    <3>1. AcceptedAt(q) /\ parent[q] \in Requests \cup {None}
      BY DEF RecordsInv, TypeOK
    <3>2. \A x \in TurnsOf(conv[q]) : x \in TurnsOf(conv[q])' /\ number'[x] = number[x]
      BY <1>1, <1>2 DEF TurnsOf
    <3>3. \A x \in Requests : number[x] > 0 => number'[x] > 0
      BY <1>1, <1>2
    <3>4. QED
      BY <1>1, <3>1, <3>2, <3>3 DEF AcceptedAt
  <2>2. QED
    BY <2>1
<1>9. \A x \in Conversations : RowKnowsTurns(x)'
  <2>1. RowKnowsTurns(c)'
    <3>1. SUFFICES ASSUME c \notin erased, row'[c].last = None
                   PROVE  \A q \in TurnsOf(c) \cup {r} : blocked[q]
      BY <1>1, <1>3 DEF RowKnowsTurns
    <3>2. blocked[r]
      BY <1>1, <3>1, RecordsAssumption DEF NewRow, RecordsAssumption
    <3>3. CASE seen[r] = NoRow
      <4>1. row[c] = NoRow
        BY <3>3 DEF Rejected
      <4>2. QED
        BY <1>1, <3>1, <3>2, <4>1 DEF RecordsInv, RowKnowsTurns
    <3>4. CASE seen[r] # NoRow
      <4>1. row[c] # NoRow /\ row[c].last = None
        BY <1>1, <3>1, <3>2, <3>4 DEF Rejected, NewRow
      <4>2. QED
        BY <1>1, <3>1, <3>2, <4>1 DEF RecordsInv, RowKnowsTurns
    <3>5. QED
      BY <3>3, <3>4
  <2>2. \A x \in Conversations \ {c} : RowKnowsTurns(x)'
    BY <1>1, <1>3 DEF RecordsInv, RowKnowsTurns
  <2>3. QED
    BY <2>1, <2>2
<1>10. TurnsNumberedInOrder'
  <2>1. ASSUME Intact(c), NEW q \in TurnsOf(c) \cup {r}
        PROVE  /\ \A k \in 1..number'[q] : \E x \in TurnsOf(c) \cup {r} : number'[x] = k
               /\ \A x \in TurnsOf(c) \cup {r} : number'[x] = number'[q] => x = q
    <3>1. \A x \in TurnsOf(c) :
            /\ \A k \in 1..number[x] : \E y \in TurnsOf(c) : number[y] = k
            /\ \A y \in TurnsOf(c) : number[y] = number[x] => y = x
      BY <1>1, <2>1 DEF RecordsInv, TurnsNumberedInOrder
    <3>2. \A k \in 1..top[r] : \E y \in TurnsOf(c) : number[y] = k
      <4>1. top[r] = 0 \/ \E y \in TurnsOf(c) : number[y] = top[r]
        BY <1>1, <2>1 DEF RecordsInv, ReadsAreCovered
      <4>2. QED
        BY <1>2, <3>1, <4>1
    <3>3. \A x \in TurnsOf(c) : number'[x] = number[x] /\ number[x] < n /\ number[x] \in Nat
      BY <1>2, <1>3, <1>5, <2>1
    <3>4. \A k \in 1..number'[q] : \E x \in TurnsOf(c) \cup {r} : number'[x] = k
      <4>1. CASE q = r
        <5>1. \A k \in 1..n : k \in 1..top[r] \/ k = n
          BY <1>2
        <5>2. QED
          BY <1>1, <3>2, <3>3, <4>1, <5>1
      <4>2. CASE q # r
        BY <2>1, <3>1, <3>3, <4>2
      <4>3. QED
        BY <4>1, <4>2
    <3>5. \A x \in TurnsOf(c) \cup {r} : number'[x] = number'[q] => x = q
      BY <1>1, <1>2, <2>1, <3>1, <3>3
    <3>6. QED
      BY <3>4, <3>5
  <2>2. ASSUME NEW x \in Conversations, x # c, Intact(x), NEW q \in TurnsOf(x)
        PROVE  /\ \A k \in 1..number'[q] : \E y \in TurnsOf(x) : number'[y] = k
               /\ \A y \in TurnsOf(x) : number'[y] = number'[q] => y = q
    BY <1>3, <2>2 DEF RecordsInv, TurnsNumberedInOrder
  <2>3. QED
    BY <1>1, <1>3, <2>1, <2>2 DEF TurnsNumberedInOrder
<1>11. CountWithinTurns'
  <2>1. ASSUME Intact(c)
        PROVE  n >= row'[c].count
    <3>1. CASE seen[r] = NoRow
      BY <1>1, <1>2, <3>1 DEF NewRow
    <3>2. CASE seen[r] # NoRow
      <4>1. top[r] >= seen[r].count
        BY <1>1, <2>1, <3>2 DEF RecordsInv, ReadsAreCovered
      <4>2. seen[r].count \in Nat
        BY <3>2 DEF RecordsInv, TypeOK
      <4>3. QED
        BY <1>1, <1>2, <3>2, <4>1, <4>2 DEF NewRow
    <3>3. QED
      BY <3>1, <3>2
  <2>2. ASSUME NEW x \in Conversations, x # c, Intact(x), row[x] # NoRow
        PROVE  \E q \in TurnsOf(x) : number'[q] >= row[x].count
    BY <1>3, <2>2 DEF RecordsInv, CountWithinTurns
  <2>3. QED
    BY <1>1, <1>3, <2>1, <2>2 DEF CountWithinTurns
<1>12. LastResponseIsLatest'
  <2>1. ASSUME Intact(c), row'[c].last # None
        PROVE  LET l == row'[c].last IN
                 /\ l \in TurnsOf(c) \cup {r} /\ ~blocked[l]
                 /\ \A q \in TurnsOf(c) \cup {r} :
                      ~blocked[q] => number'[q] <= number'[l]
    <3>1. CASE ~blocked[r]
      <4>1. row'[c].last = r
        BY <1>1, <3>1 DEF NewRow
      <4>2. \A q \in TurnsOf(c) : number'[q] <= n
        BY <1>2, <1>3, <1>5, <2>1
      <4>3. QED
        BY <1>1, <1>2, <3>1, <4>1, <4>2
    <3>2. CASE blocked[r]
      <4>1. row[c] # NoRow /\ row'[c].last = row[c].last
        BY <1>1, <2>1, <3>2 DEF NewRow, Rejected
      <4>2. QED
        BY <1>1, <1>3, <2>1, <3>2, <4>1 DEF RecordsInv, LastResponseIsLatest
    <3>3. QED
      BY <3>1, <3>2
  <2>2. ASSUME NEW x \in Conversations, x # c, Intact(x), row[x] # NoRow,
               row[x].last # None
        PROVE  LET l == row[x].last IN
                 /\ l \in TurnsOf(x) /\ ~blocked[l]
                 /\ \A q \in TurnsOf(x) : ~blocked[q] => number'[q] <= number'[l]
    BY <1>3, <2>2 DEF RecordsInv, LastResponseIsLatest
  <2>3. QED
    BY <1>1, <1>3, <2>1, <2>2 DEF LastResponseIsLatest
<1>13. ContinuesLatest'
  <2>1. ASSUME NEW x \in Requests, parent[x] # None, conv[x] = conv[parent[x]],
               conv[x] \notin erased, NEW q \in TurnsOf(conv[x])',
               ~blocked[q], number'[q] <= since[x]
        PROVE  number'[q] <= number'[parent[x]]
    <3>1. /\ AcceptedAt(x) /\ parent[x] \in Requests /\ conv[x] \in Conversations
          /\ since[x] \in Nat
      <4>1. parent[x] \in Requests /\ since[x] \in Numbers /\ Located(x) /\ AcceptedAt(x)
        BY <2>1 DEF RecordsInv, TypeOK
      <4>2. conv[parent[x]] \in Conversations
        BY <2>1, <4>1 DEF RecordsInv, Located
      <4>3. QED
        BY <2>1, <4>1, <4>2, NumbersAreNatural
    <3>2. parent[x] # r /\ number'[parent[x]] = number[parent[x]]
      BY <1>1, <1>2, <2>1, <3>1 DEF AcceptedAt
    <3>3. CASE q # r
      <4>1. q \in TurnsOf(conv[x]) /\ number'[q] = number[q]
        BY <1>1, <2>1, <3>3 DEF TurnsOf
      <4>2. QED
        BY <2>1, <3>2, <4>1 DEF RecordsInv, ContinuesLatest
    <3>4. CASE q = r
      <4>1. conv[x] = c /\ Intact(c)
        BY <1>1, <1>3, <1>4, <2>1, <3>4 DEF TurnsOf
      <4>2. since[x] >= n
        BY <1>1, <2>1, <3>4
      <4>3. \E y \in TurnsOf(c) : number[y] = since[x]
        BY <1>2, <2>1, <3>1, <4>1, <4>2 DEF AcceptedAt
      <4>4. QED
        BY <1>2, <1>5, <3>1, <4>1, <4>2, <4>3
    <3>5. QED
      BY <3>3, <3>4
  <2>2. QED
    BY <1>1, <2>1 DEF ContinuesLatest
<1>14. QED
  BY <1>6, <1>7, <1>8, <1>9, <1>10, <1>11, <1>12, <1>13 DEF RecordsInv

-----------------------------------------------------------------------------
(* The other actions.                                                      *)
LEMMA StoreStep ==
  ASSUME RecordsInv, TypeOK', NEW r \in Requests, Store(r)
  PROVE  RecordsInv'
<1> USE DEF tables, request
<1>1. CASE ReadConversation(r)
  <2>1. /\ phase[r] = "answered" /\ phase'[r] = "readingTurns"
        /\ seen'[r] = row[conv[r]] /\ conv[r] \in Conversations
        /\ \A q \in Requests \ {r} : phase'[q] = phase[q] /\ seen'[q] = seen[q]
        /\ UNCHANGED <<cascade, row, number, conv, parent, blocked, top, since, erased>>
    BY <1>1 DEF ReadConversation, RecordsInv, TypeOK, Located
  <2>2. \A q \in Requests : ReadsAreCovered(q)'
    <3>1. ReadsAreCovered(r)'
      BY <2>1 DEF RecordsInv, CountWithinTurns, ReadsAreCovered, Intact, TurnsOf
    <3>2. \A q \in Requests \ {r} : ReadsAreCovered(q)'
      BY <2>1 DEF RecordsInv, ReadsAreCovered, Intact, TurnsOf
    <3>3. QED
      BY <3>1, <3>2
  <2>3. QED
    BY <2>1, <2>2, QuietStep
<1>2. CASE ReadTopTurn(r)
  <2>1. /\ phase[r] = "readingTurns" /\ phase'[r] = "committing"
        /\ IsTop(conv[r], top'[r]) /\ top'[r] \in Nat
        /\ \A q \in Requests \ {r} : phase'[q] = phase[q] /\ top'[q] = top[q]
        /\ UNCHANGED <<cascade, row, number, conv, parent, blocked, seen, since, erased>>
    BY <1>2, NumbersAreNatural DEF ReadTopTurn, RecordsInv, TypeOK
  <2>2. \A q \in Requests : ReadsAreCovered(q)'
    <3>1. ReadsAreCovered(r)'
      <4>1. /\ \A q \in TurnsOf(conv[r]) : number[q] \in Nat /\ number[q] <= top'[r]
            /\ seen[r] # NoRow => seen[r].count \in Nat
        BY <2>1 DEF IsTop, TurnsOf, RecordsInv, TypeOK
      <4>2. ReadsAreCovered(r)
        BY DEF RecordsInv
      <4>3. Intact(conv[r]) /\ seen[r] # NoRow =>
              /\ \E q \in TurnsOf(conv[r]) : number[q] >= seen[r].count
              /\ top'[r] >= seen[r].count
        BY <2>1, <4>1, <4>2 DEF ReadsAreCovered
      <4>4. QED
        BY <2>1, <4>3 DEF ReadsAreCovered, Intact, TurnsOf, IsTop
    <3>2. \A q \in Requests \ {r} : ReadsAreCovered(q)'
      BY <2>1 DEF RecordsInv, ReadsAreCovered, Intact, TurnsOf
    <3>3. QED
      BY <3>1, <3>2
  <2>3. QED
    BY <2>1, <2>2, QuietStep
<1>3. CASE Commit(r) /\ Rejected(r)
  <2>1. /\ phase[r] = "committing" /\ phase'[r] = "failed"
        /\ \A q \in Requests \ {r} : phase'[q] = phase[q]
        /\ UNCHANGED <<cascade, row, number, conv, parent, blocked, seen, top, since, erased>>
    BY <1>3 DEF Commit, RecordsInv, TypeOK
  <2>2. \A q \in Requests : ReadsAreCovered(q)'
    BY <2>1 DEF RecordsInv, ReadsAreCovered, Intact, TurnsOf
  <2>3. QED
    BY <2>1, <2>2, QuietStep
<1>4. CASE Commit(r) /\ ~Rejected(r)
  <2>1. conv[r] \in Conversations
    BY <1>4 DEF Commit, RecordsInv, Located
  <2>2. top[r] + 1 \in Nat
    <3>1. top[r] \in Numbers
      BY DEF RecordsInv, TypeOK
    <3>2. QED
      BY <3>1, NumbersAreNatural
  <2>3. QED
    BY <1>4, <2>1, <2>2, CommitStep
<1>5. CASE StoreInCache(r)
  <2>1. /\ phase[r] = "caching" /\ phase'[r] = "done"
        /\ \A q \in Requests \ {r} : phase'[q] = phase[q]
        /\ UNCHANGED <<cascade, row, number, conv, parent, blocked, seen, top, since, erased>>
    BY <1>5 DEF StoreInCache, RecordsInv, TypeOK
  <2>2. \A q \in Requests : ReadsAreCovered(q)'
    BY <2>1 DEF RecordsInv, ReadsAreCovered, Intact, TurnsOf
  <2>3. QED
    BY <2>1, <2>2, QuietStep
<1>6. QED
  BY <1>1, <1>2, <1>3, <1>4, <1>5 DEF Store

LEMMA AnswerStep ==
  ASSUME RecordsInv, TypeOK', NEW r \in Requests, NEW refusal \in BOOLEAN,
         Answered(r, refusal)
  PROVE  RecordsInv'
<1> USE DEF tables
<1>1. /\ phase[r] = "running" /\ phase'[r] = "answered" /\ number[r] = 0
      /\ \A q \in Requests \ {r} : phase'[q] = phase[q] /\ blocked'[q] = blocked[q]
      /\ UNCHANGED <<cascade, row, number, conv, parent, seen, top, since, erased>>
  BY DEF Answered, RecordsInv, TypeOK, Located
<1>2. \A q \in Requests : ReadsAreCovered(q)'
  BY <1>1 DEF RecordsInv, ReadsAreCovered, Intact, TurnsOf
<1>3. QED
  BY <1>1, <1>2, QuietStep

LEMMA FailStep ==
  ASSUME RecordsInv, TypeOK', NEW r \in Requests, Fail(r)
  PROVE  RecordsInv'
<1> USE DEF tables, request
<1>1. /\ phase[r] \in {"running", "answered"} \cup Storing /\ phase'[r] = "failed"
      /\ \A q \in Requests \ {r} : phase'[q] = phase[q]
      /\ UNCHANGED <<cascade, row, number, conv, parent, blocked, seen, top, since, erased>>
  BY DEF Fail, RecordsInv, TypeOK
<1>2. phase[r] # "idle"
  BY <1>1 DEF Storing
<1>3. \A q \in Requests : ReadsAreCovered(q)'
  BY <1>1 DEF RecordsInv, ReadsAreCovered, Intact, TurnsOf
<1>4. QED
  BY <1>1, <1>2, <1>3, QuietStep

LEMMA DeleteRowStep ==
  ASSUME RecordsInv, TypeOK', NEW d \in Deletions, NEW c \in Conversations,
         DeleteRow(d, c)
  PROVE  RecordsInv'
<1> USE DEF request
<1>1. UNCHANGED <<cascade, ogx, cache, phase, conv, worker, parent, blocked,
                  seen, top, since>>
  BY DEF DeleteRow
<1>2. CASE row[c] = NoRow
  <2>1. row' = row /\ number' = number /\ erased' = erased
    BY <1>2 DEF DeleteRow, RecordsInv, TypeOK
  <2>2. \A q \in Requests : ReadsAreCovered(q)'
    BY <1>1, <2>1 DEF RecordsInv, ReadsAreCovered, Intact, TurnsOf
  <2>3. QED
    BY <1>1, <2>1, <2>2, QuietStep DEF tables
<1>3. CASE row[c] # NoRow
  <2>1. /\ row'[c] = NoRow /\ erased' = erased \cup {c}
        /\ \A x \in Conversations \ {c} : row'[x] = row[x]
        /\ \A q \in Requests :
             number'[q] = IF cascade /\ conv[q] = c THEN 0 ELSE number[q]
    BY <1>3 DEF DeleteRow, RecordsInv, TypeOK
  <2>2. /\ Intact(c)' => ~cascade
        /\ \A x : x # c => (Intact(x)' <=> Intact(x))
        /\ \A x : Intact(x)' => Intact(x)
    BY <1>1, <2>1 DEF Intact
  <2>3. \A x : x # c \/ ~cascade =>
          /\ TurnsOf(x)' = TurnsOf(x)
          /\ \A q \in TurnsOf(x) : q \in Requests /\ number'[q] = number[q]
    BY <1>1, <2>1 DEF TurnsOf
  <2>4. \A q \in Requests :
          /\ number'[q] > 0 => number[q] > 0
          /\ phase[q] = "running" => number'[q] = 0
          /\ parent[q] \in Requests \cup {None}
    BY <2>1 DEF RecordsInv, Located, TypeOK
  <2>5. \A q \in Requests : Located(q)'
    BY <1>1, <2>4 DEF RecordsInv, Located
  <2>6. \A q \in Requests : ReadsAreCovered(q)'
    <3>1. ASSUME NEW q \in Requests, conv[q] # c \/ ~cascade
          PROVE  ReadsAreCovered(q)'
      <4>1. ReadsAreCovered(q)
        BY DEF RecordsInv
      <4>2. \A x \in TurnsOf(conv[q]) : x \in TurnsOf(conv[q])' /\ number'[x] = number[x]
        BY <1>1, <2>1, <3>1 DEF TurnsOf
      <4>3. Intact(conv[q])' => Intact(conv[q])
        BY <1>1, <2>1 DEF Intact
      <4>4. QED
        BY <1>1, <4>1, <4>2, <4>3 DEF ReadsAreCovered
    <3>2. ASSUME NEW q \in Requests, conv[q] = c, cascade
          PROVE  ReadsAreCovered(q)'
      BY <1>1, <2>1, <3>2 DEF ReadsAreCovered, Intact
    <3>3. QED
      BY <3>1, <3>2
  <2>7. \A q \in Requests : AcceptedAt(q)'
    <3>1. ASSUME NEW q \in Requests, conv[q] \in Conversations \ erased'
          PROVE  AcceptedAt(q)'
      <4>1. AcceptedAt(q) /\ conv[q] # c
        BY <2>1, <3>1 DEF RecordsInv
      <4>2. \A x \in TurnsOf(conv[q]) : x \in TurnsOf(conv[q])' /\ number'[x] = number[x]
        BY <1>1, <2>1, <4>1 DEF TurnsOf
      <4>3. parent[q] # None /\ conv[q] = conv[parent[q]]
              => number'[parent[q]] = number[parent[q]]
        BY <2>1, <2>4, <4>1
      <4>4. QED
        BY <1>1, <2>1, <4>1, <4>2, <4>3 DEF AcceptedAt
    <3>2. QED
      BY <1>1, <3>1 DEF AcceptedAt
  <2>8. \A x \in Conversations : RowKnowsTurns(x)'
    BY <1>1, <2>1, <2>3 DEF RecordsInv, RowKnowsTurns
  <2>9. TurnsNumberedInOrder'
    BY <2>2, <2>3 DEF RecordsInv, TurnsNumberedInOrder
  <2>10. CountWithinTurns'
    BY <2>1, <2>2, <2>3 DEF RecordsInv, CountWithinTurns
  <2>11. LastResponseIsLatest'
    <3>1. ASSUME NEW x \in Conversations, x # c, Intact(x), row[x] # NoRow,
                 row[x].last # None
          PROVE  LET l == row[x].last IN
                   /\ l \in TurnsOf(x) /\ ~blocked[l]
                   /\ \A q \in TurnsOf(x) : ~blocked[q] => number'[q] <= number'[l]
      BY <2>3, <3>1 DEF RecordsInv, LastResponseIsLatest
    <3>2. QED
      BY <1>1, <2>1, <2>2, <2>3, <3>1 DEF LastResponseIsLatest
  <2>12. ContinuesLatest'
    <3>1. ASSUME NEW x \in Requests, parent[x] # None, conv[x] = conv[parent[x]],
                 conv[x] \notin erased', NEW q \in TurnsOf(conv[x])',
                 ~blocked[q], number'[q] <= since[x]
          PROVE  number'[q] <= number'[parent[x]]
      <4>1. conv[x] # c /\ conv[x] \notin erased /\ parent[x] \in Requests
        BY <2>1, <2>4, <3>1
      <4>2. q \in TurnsOf(conv[x]) /\ number'[q] = number[q]
        BY <1>1, <2>1, <3>1, <4>1 DEF TurnsOf
      <4>3. number'[parent[x]] = number[parent[x]]
        BY <2>1, <3>1, <4>1
      <4>4. QED
        BY <3>1, <4>1, <4>2, <4>3 DEF RecordsInv, ContinuesLatest
    <3>2. QED
      BY <1>1, <3>1 DEF ContinuesLatest
  <2>13. QED
    BY <2>5, <2>6, <2>7, <2>8, <2>9, <2>10, <2>11, <2>12 DEF RecordsInv
<1>4. QED
  BY <1>2, <1>3

LEMMA OtherDeletionStep ==
  ASSUME RecordsInv, TypeOK',
         UNCHANGED <<cascade, tables, phase, request, erased>>
  PROVE  RecordsInv'
<1> USE DEF tables, request
<1>1. \A q \in Requests : ReadsAreCovered(q)'
  BY DEF RecordsInv, ReadsAreCovered, Intact, TurnsOf
<1>2. QED
  BY <1>1, QuietStep
-----------------------------------------------------------------------------
(* The invariant holds initially and every step preserves it.              *)
LEMMA RecordsInit == Init => RecordsInv
<1> SUFFICES ASSUME Init PROVE RecordsInv
  OBVIOUS
<1>1. TypeOK
  BY NumbersAreNatural DEF Init, TypeOK, Storing
<1>2. \A c : TurnsOf(c) = {}
  BY DEF Init, TurnsOf
<1>3. \A r \in Requests : Located(r) /\ ReadsAreCovered(r) /\ AcceptedAt(r)
  BY RecordsAssumption DEF Init, Located, ReadsAreCovered, AcceptedAt, RecordsAssumption
<1>4. \A c \in Conversations : RowKnowsTurns(c)
  BY <1>2 DEF Init, RowKnowsTurns
<1>5. TurnsNumberedInOrder /\ CountWithinTurns /\ LastResponseIsLatest
  BY <1>2 DEF Init, TurnsNumberedInOrder, CountWithinTurns, LastResponseIsLatest
<1>6. ContinuesLatest
  BY DEF Init, ContinuesLatest
<1>7. QED
  BY <1>1, <1>3, <1>4, <1>5, <1>6 DEF RecordsInv

LEMMA RecordsNext == RecordsInv /\ [Next]_vars => RecordsInv'
<1> SUFFICES ASSUME RecordsInv, [Next]_vars PROVE RecordsInv'
  OBVIOUS
<1>1. TypeOK /\ \A r \in Requests : number[r] > 0 => conv[r] \in Conversations
  BY DEF RecordsInv, Located
<1>2. ASSUME NEW r \in Requests, Start(r)
      PROVE  RecordsInv'
  BY <1>1, <1>2, StartTypes, StartStep
<1>3. ASSUME NEW r \in Requests, NEW refusal \in BOOLEAN, Answered(r, refusal)
      PROVE  RecordsInv'
  <2>1. TypeOK'
    BY <1>1, <1>3 DEF TypeOK, Answered, tables
  <2>2. QED
    BY <1>3, <2>1, AnswerStep
<1>4. ASSUME NEW r \in Requests, Store(r)
      PROVE  RecordsInv'
  <2>1. conv[r] \in Conversations
    <3>1. phase[r] # "idle"
      BY <1>4 DEF Store, ReadConversation, ReadTopTurn, Commit, StoreInCache
    <3>2. QED
      BY <3>1 DEF RecordsInv, Located
  <2>2. QED
    BY <1>1, <1>4, <2>1, StoreTypes, StoreStep
<1>5. ASSUME NEW r \in Requests, Fail(r)
      PROVE  RecordsInv'
  <2>1. TypeOK'
    BY <1>1, <1>5 DEF TypeOK, Fail, tables, request
  <2>2. QED
    BY <1>5, <2>1, FailStep
<1>6. ASSUME NEW d \in Deletions, Delete(d)
      PROVE  RecordsInv'
  <2>1. TypeOK'
    BY <1>1, <1>6, DeleteTypes
  <2>2. CASE \E c \in Conversations : DeleteRow(d, c)
    BY <2>1, <2>2, DeleteRowStep
  <2>3. CASE DeleteInOgx(d) \/ DeleteUnavailable(d)
    BY <2>1, <2>3, OtherDeletionStep DEF DeleteInOgx, DeleteUnavailable
  <2>4. QED
    BY <1>6, <2>2, <2>3 DEF Delete
<1>7. ASSUME NEW c \in Conversations, DeleteFromCache(c)
      PROVE  RecordsInv'
  <2>1. TypeOK'
    BY <1>1, <1>7 DEF TypeOK, DeleteFromCache, tables, request
  <2>2. QED
    BY <1>7, <2>1, OtherDeletionStep DEF DeleteFromCache
<1>8. CASE UNCHANGED vars
  <2>1. TypeOK'
    BY <1>1, <1>8 DEF TypeOK, vars, tables, request
  <2>2. QED
    BY <1>8, <2>1, OtherDeletionStep DEF vars
<1>9. QED
  BY <1>2, <1>3, <1>4, <1>5, <1>6, <1>7, <1>8 DEF Next, Answer, AnswerUnstored

LEMMA RecordsInvariant == Spec => []RecordsInv
  BY RecordsInit, RecordsNext, PTL DEF Spec
-----------------------------------------------------------------------------
(* Every variable of the records stays in its type, for any requests,      *)
(* workers and deletions (TypeOK).                                         *)
THEOREM RecordsTypeCorrect == Spec => []TypeOK
<1>1. RecordsInv => TypeOK
  BY DEF RecordsInv
<1>2. QED
  BY <1>1, RecordsInvariant, PTL

(* Turn numbers have neither gaps nor duplicates, although each worker     *)
(* computes them from what it read earlier                                 *)
(* (persist_user_conversation_details).                                    *)
THEOREM TurnsAreNumbered == Spec => []TurnsNumberedInOrder
<1>1. RecordsInv => TurnsNumberedInOrder
  BY DEF RecordsInv
<1>2. QED
  BY <1>1, RecordsInvariant, PTL

(* message_count never exceeds the highest turn number: an increment may   *)
(* be lost but not made twice.                                             *)
THEOREM CountIsNeverTooHigh == Spec => []CountWithinTurns
<1>1. RecordsInv => CountWithinTurns
  BY DEF RecordsInv
<1>2. QED
  BY <1>1, RecordsInvariant, PTL

(* last_response_id names the answered turn with the highest number.       *)
THEOREM LastResponseIsKept == Spec => []LastResponseIsLatest
<1>1. RecordsInv => LastResponseIsLatest
  BY DEF RecordsInv
<1>2. QED
  BY <1>1, RecordsInvariant, PTL

(* resolve_response_context lets a request continue a conversation only    *)
(* from the latest answer at the time it was accepted.                     *)
THEOREM ContinuationsAreChecked == Spec => []ContinuesLatest
<1>1. RecordsInv => ContinuesLatest
  BY DEF RecordsInv
<1>2. QED
  BY <1>1, RecordsInvariant, PTL
-----------------------------------------------------------------------------
(* What the cache tells: whoever comes to the cache has committed its      *)
(* turn, and only a deletion takes the turn away.                          *)
Committed(r) == conv[r] \in erased \/ number[r] > 0

CacheInv(r) ==
  /\ phase[r] = "caching" \/ r \in cache => Committed(r)
  /\ r \in cache => phase[r] = "done"

\* A request that is not at work keeps what it stored.
LEMMA CacheFrame ==
  ASSUME NEW r \in Requests, CacheInv(r), phase'[r] = phase[r],
         r \in cache' => r \in cache, Committed(r) => Committed(r)'
  PROVE  CacheInv(r)'
  BY DEF CacheInv

\* A request that starts or is answered has nothing in the cache.
LEMMA CacheStartStep ==
  ASSUME RecordsInv, \A q \in Requests : CacheInv(q), NEW r \in Requests,
         Start(r) \/ \E refusal \in BOOLEAN : Answered(r, refusal)
  PROVE  \A q \in Requests : CacheInv(q)'
<1>1. /\ phase[r] \in {"idle", "running"} /\ phase'[r] \in {"running", "answered"}
      /\ cache' = cache /\ number' = number /\ erased' = erased
      /\ \A q \in Requests \ {r} : phase'[q] = phase[q] /\ conv'[q] = conv[q]
  <2>1. CASE Start(r)
    <3>1. PICK c, p, w : c \in Conversations /\ Accept(r, w, c, p)
      <4>1. \A q \in Requests : number[q] > 0 => conv[q] \in Conversations
        BY DEF RecordsInv, Located
      <4>2. QED
        BY <2>1, <4>1 DEF Start, StartNew, StartInConversation, StartFromResponse
    <3>2. QED
      BY <3>1 DEF Accept, RecordsInv, TypeOK, tables
  <2>2. CASE \E refusal \in BOOLEAN : Answered(r, refusal)
    BY <2>2 DEF Answered, RecordsInv, TypeOK, tables
  <2>3. QED
    BY <2>1, <2>2
<1>2. CacheInv(r)'
  BY <1>1 DEF CacheInv
<1>3. ASSUME NEW q \in Requests \ {r}
      PROVE  CacheInv(q)'
  <2>1. Committed(q) => Committed(q)'
    BY <1>1 DEF Committed
  <2>2. QED
    BY <1>1, <2>1, CacheFrame
<1>4. QED
  BY <1>2, <1>3

LEMMA CacheStoreStep ==
  ASSUME RecordsInv, \A q \in Requests : CacheInv(q), NEW r \in Requests,
         Store(r) \/ Fail(r)
  PROVE  \A q \in Requests : CacheInv(q)'
<1>1. /\ conv' = conv /\ erased' = erased
      /\ \A q \in Requests \ {r} : phase'[q] = phase[q] /\ number'[q] = number[q]
      /\ \A q \in Requests \ {r} : q \in cache' => q \in cache
  <2>1. CASE ReadConversation(r) \/ ReadTopTurn(r)
    BY <2>1 DEF ReadConversation, ReadTopTurn, RecordsInv, TypeOK, tables
  <2>2. CASE Commit(r)
    BY <2>2 DEF Commit, RecordsInv, TypeOK, tables, request
  <2>3. CASE StoreInCache(r) \/ Fail(r)
    BY <2>3 DEF StoreInCache, Fail, RecordsInv, TypeOK, tables, request
  <2>4. QED
    BY <2>1, <2>2, <2>3 DEF Store
<1>2. CacheInv(r)'
  <2>1. CASE ReadConversation(r) \/ ReadTopTurn(r)
    <3>1. /\ phase[r] \in {"answered", "readingTurns"} /\ cache' = cache
          /\ phase'[r] \in {"readingTurns", "committing"}
      BY <2>1 DEF ReadConversation, ReadTopTurn, RecordsInv, TypeOK
    <3>2. QED
      BY <3>1 DEF CacheInv
  <2>2. CASE Commit(r) /\ Rejected(r)
    <3>1. phase[r] = "committing" /\ phase'[r] = "failed" /\ cache' = cache
      BY <2>2 DEF Commit, RecordsInv, TypeOK
    <3>2. QED
      BY <3>1 DEF CacheInv
  <2>3. CASE Commit(r) /\ ~Rejected(r)
    <3>1. /\ phase[r] = "committing" /\ phase'[r] = "caching" /\ cache' = cache
          /\ number'[r] = top[r] + 1 /\ top[r] \in Numbers
      BY <2>3 DEF Commit, RecordsInv, TypeOK
    <3>2. top[r] \in Nat
      BY <3>1, NumbersAreNatural
    <3>3. number'[r] > 0
      BY <3>1, <3>2
    <3>4. QED
      BY <3>1, <3>3 DEF CacheInv, Committed
  <2>4. CASE StoreInCache(r)
    <3>1. /\ phase[r] = "caching" /\ phase'[r] = "done" /\ cache' = cache \cup {r}
          /\ number' = number
      BY <2>4 DEF StoreInCache, RecordsInv, TypeOK, tables
    <3>2. QED
      BY <1>1, <3>1 DEF CacheInv, Committed
  <2>5. CASE Fail(r)
    <3>1. /\ phase[r] # "done" /\ phase'[r] = "failed" /\ cache' = cache
      BY <2>5 DEF Fail, RecordsInv, TypeOK, Storing
    <3>2. QED
      BY <3>1 DEF CacheInv
  <2>6. QED
    BY <2>1, <2>2, <2>3, <2>4, <2>5 DEF Store
<1>3. ASSUME NEW q \in Requests \ {r}
      PROVE  CacheInv(q)'
  <2>1. Committed(q) => Committed(q)'
    BY <1>1 DEF Committed
  <2>2. QED
    BY <1>1, <2>1, CacheFrame
<1>4. QED
  BY <1>2, <1>3

LEMMA CacheDeleteStep ==
  ASSUME RecordsInv, \A q \in Requests : CacheInv(q),
         \/ \E d \in Deletions : Delete(d)
         \/ \E c \in Conversations : DeleteFromCache(c)
  PROVE  \A q \in Requests : CacheInv(q)'
<1>1. conv' = conv /\ phase' = phase /\ cache' \subseteq cache
  BY DEF Delete, DeleteRow, DeleteInOgx, DeleteUnavailable, DeleteFromCache, request
<1>2. ASSUME NEW q \in Requests
      PROVE  Committed(q) => Committed(q)'
  <2>1. CASE \E d \in Deletions, c \in Conversations : DeleteRow(d, c)
    BY <1>1, <2>1 DEF DeleteRow, Committed
  <2>2. CASE UNCHANGED <<tables, erased>>
    BY <1>1, <2>2 DEF tables, Committed
  <2>3. QED
    BY <2>1, <2>2 DEF Delete, DeleteInOgx, DeleteUnavailable, DeleteFromCache
<1>3. QED
  BY <1>1, <1>2, CacheFrame

(* store_query_results writes the cache last, after its commit: whatever   *)
(* the cache lists has its turn and the row of its conversation in the     *)
(* database, unless the row was deleted.                                   *)
THEOREM CacheFollowsRecords == Spec => []CachedIsRecorded
<1>1. Init => \A q \in Requests : CacheInv(q)
  BY DEF Init, CacheInv, Storing
<1>2. RecordsInv /\ (\A q \in Requests : CacheInv(q)) /\ [Next]_vars
        => (\A q \in Requests : CacheInv(q))'
  <2>1. SUFFICES ASSUME RecordsInv, \A q \in Requests : CacheInv(q), [Next]_vars
                 PROVE  \A q \in Requests : CacheInv(q)'
    OBVIOUS
  <2>2. CASE UNCHANGED vars
    BY <2>1, <2>2 DEF vars, tables, request, CacheInv, Committed
  <2>3. CASE Next
    BY <2>1, <2>3, CacheStartStep, CacheStoreStep, CacheDeleteStep
       DEF Next, Answer, AnswerUnstored
  <2>4. QED
    BY <2>1, <2>2, <2>3
<1>3. (\A q \in Requests : CacheInv(q)) /\ RecordsInv => CachedIsRecorded
  <2>1. SUFFICES ASSUME \A q \in Requests : CacheInv(q), RecordsInv,
                        NEW r \in cache, conv[r] \notin erased
                 PROVE  number[r] > 0 /\ row[conv[r]] # NoRow
    BY DEF CachedIsRecorded
  <2>2. r \in Requests
    BY <2>1 DEF RecordsInv, TypeOK
  <2>3. number[r] > 0
    BY <2>1, <2>2 DEF CacheInv, Committed
  <2>4. conv[r] \in Conversations /\ r \in TurnsOf(conv[r])
    BY <2>1, <2>2, <2>3 DEF RecordsInv, Located, TurnsOf
  <2>5. QED
    BY <2>1, <2>3, <2>4 DEF RecordsInv, RowKnowsTurns
<1>4. QED
  BY <1>1, <1>2, <1>3, RecordsInvariant, PTL DEF Spec
-----------------------------------------------------------------------------
(* The tables implement a log of turns.                                    *)

(* Every turn is in the log of its conversation, at its number.            *)
TurnOf(q) == [request |-> q, refused |-> blocked[q]]
LEMMA LogIs ==
  ASSUME NEW c \in Conversations
  PROVE  RecordsInv /\ Intact(c) =>
           /\ LogOf(c) = [n \in DOMAIN LogOf(c) |-> LogOf(c)[n]]
           /\ DOMAIN LogOf(c) = {number[q] : q \in TurnsOf(c)}
           /\ \A q \in TurnsOf(c) : LogOf(c)[number[q]] = TurnOf(q)
<1> SUFFICES ASSUME RecordsInv, Intact(c)
             PROVE  /\ LogOf(c) = [n \in DOMAIN LogOf(c) |-> LogOf(c)[n]]
                    /\ DOMAIN LogOf(c) = {number[q] : q \in TurnsOf(c)}
                    /\ \A q \in TurnsOf(c) : LogOf(c)[number[q]] = TurnOf(q)
  OBVIOUS
<1> DEFINE at(n) == CHOOSE q \in TurnsOf(c) : number[q] = n
<1>1. LogOf(c) = [n \in {number[q] : q \in TurnsOf(c)} |->
                    [request |-> at(n), refused |-> blocked[at(n)]]]
  BY DEF LogOf
<1>2. ASSUME NEW q \in TurnsOf(c) PROVE at(number[q]) = q
  <2>1. at(number[q]) \in TurnsOf(c) /\ number[at(number[q])] = number[q]
    OBVIOUS
  <2>2. QED
    BY <2>1 DEF RecordsInv, TurnsNumberedInOrder
<1> HIDE DEF at
<1>3. QED
  BY <1>1, <1>2 DEF TurnOf

LEMMA LogIsNext ==
  ASSUME NEW c \in Conversations
  PROVE  (RecordsInv /\ Intact(c) =>
            /\ LogOf(c) = [n \in DOMAIN LogOf(c) |-> LogOf(c)[n]]
            /\ DOMAIN LogOf(c) = {number[q] : q \in TurnsOf(c)}
            /\ \A q \in TurnsOf(c) : LogOf(c)[number[q]] = TurnOf(q))'
BY LogIs, PTL

(* A conversation whose turns are the same has the same log.               *)
LEMMA LogStays ==
  ASSUME RecordsInv, RecordsInv', NEW c \in Conversations,
         Intact(c)' <=> Intact(c), TurnsOf(c)' = TurnsOf(c),
         \A q \in TurnsOf(c) : number'[q] = number[q] /\ blocked'[q] = blocked[q]
  PROVE  LogOf(c)' = LogOf(c)
<1>1. CASE ~Intact(c)
  BY <1>1 DEF LogOf
<1>2. CASE Intact(c)
  <2>1. /\ LogOf(c) = [n \in DOMAIN LogOf(c) |-> LogOf(c)[n]]
        /\ DOMAIN LogOf(c) = {number[q] : q \in TurnsOf(c)}
        /\ \A q \in TurnsOf(c) : LogOf(c)[number[q]] = TurnOf(q)
    BY <1>2, LogIs
  <2>2. /\ LogOf(c)' = [n \in DOMAIN LogOf(c)' |-> LogOf(c)'[n]]
        /\ DOMAIN LogOf(c)' = {number'[q] : q \in TurnsOf(c)'}
        /\ \A q \in TurnsOf(c)' : LogOf(c)'[number'[q]] = TurnOf(q)'
    BY <1>2, LogIsNext
  <2>3. DOMAIN LogOf(c)' = DOMAIN LogOf(c)
    BY <2>1, <2>2
  <2>4. ASSUME NEW n \in DOMAIN LogOf(c) PROVE LogOf(c)'[n] = LogOf(c)[n]
    <3>1. PICK q \in TurnsOf(c) : n = number[q]
      BY <2>1
    <3>2. LogOf(c)[n] = TurnOf(q) /\ LogOf(c)'[n] = TurnOf(q)'
      BY <2>1, <2>2, <3>1
    <3>3. QED
      BY <3>2 DEF TurnOf
  <2>5. QED
    BY <2>1, <2>2, <2>3, <2>4
<1>3. QED
  BY <1>1, <1>2

(* Nobody is in a log without a number.                                    *)
LEMMA NotRecorded ==
  ASSUME RecordsInv, NEW r \in Requests, number[r] = 0, NEW c \in Conversations
  PROVE  ~TurnTable!Recorded(c, r)
<1>1. CASE ~Intact(c)
  BY <1>1 DEF TurnTable!Recorded, LogOf
<1>2. CASE Intact(c)
  <2>1. \A i \in DOMAIN LogOf(c) : LogOf(c)[i].request # r
    <3>1. SUFFICES ASSUME NEW i \in DOMAIN LogOf(c)
                   PROVE  LogOf(c)[i].request # r
      OBVIOUS
    <3>2. PICK q \in TurnsOf(c) : i = number[q]
      BY <1>2, LogIs
    <3>3. LogOf(c)[i] = TurnOf(q)
      BY <1>2, <3>2, LogIs
    <3>4. q # r
      BY DEF TurnsOf
    <3>5. QED
      BY <3>3, <3>4 DEF TurnOf
  <2>2. QED
    BY <2>1 DEF TurnTable!Recorded
<1>3. QED
  BY <1>1, <1>2

(* A step that changes at most one conversation, in one of three ways.     *)
LEMMA OneConversation ==
  ASSUME NEW c \in Conversations,
         \A d \in Conversations \ {c} : LogOf(d)' = LogOf(d) /\ LastOf(d)' = LastOf(d),
         \/ /\ LogOf(c)' = LogOf(c) \/ LogOf(c)' = <<>>
            /\ LastOf(c)' = None
         \/ \E r \in Requests : \E refused \in BOOLEAN :
              /\ \A d \in Conversations : ~TurnTable!Recorded(d, r)
              /\ LogOf(c)' = Append(LogOf(c), [request |-> r, refused |-> refused])
              /\ LastOf(c)' = IF refused THEN LastOf(c) ELSE r
  PROVE  [TurnTable!Next]_(TurnTable!vars)
<1> DEFINE logs == [d \in Conversations |-> LogOf(d)]
           lasts == [d \in Conversations |-> LastOf(d)]
           logsNext == [d \in Conversations |-> LogOf(d)']
           lastsNext == [d \in Conversations |-> LastOf(d)']
<1>1. /\ logsNext = [logs EXCEPT ![c] = LogOf(c)']
      /\ lastsNext = [lasts EXCEPT ![c] = LastOf(c)']
      /\ logs[c] = LogOf(c) /\ lasts[c] = LastOf(c)
      /\ logsNext[c] = LogOf(c)' /\ lastsNext[c] = LastOf(c)'
  OBVIOUS
<1>2. CASE LogOf(c)' = LogOf(c) /\ LastOf(c)' = LastOf(c)
  BY <1>2 DEF TurnTable!vars
<1>3. CASE ~(LogOf(c)' = LogOf(c) /\ LastOf(c)' = LastOf(c))
  <2>1. TurnTable!Changes(c)
    BY <1>1, <1>3 DEF TurnTable!Changes
  <2>2. CASE LogOf(c)' = LogOf(c) /\ LastOf(c)' = None
    <3>1. logsNext = logs
      BY <2>2
    <3>2. TurnTable!Forget(c)
      BY <1>1, <2>2, <3>1 DEF TurnTable!Forget
    <3>3. QED
      BY <2>1, <3>2 DEF TurnTable!Next
  <2>3. CASE LogOf(c)' = <<>> /\ LastOf(c)' = None
    <3>1. TurnTable!Delete(c)
      BY <1>1, <2>3 DEF TurnTable!Delete
    <3>2. QED
      BY <2>1, <3>1 DEF TurnTable!Next
  <2>4. ASSUME NEW r \in Requests, NEW refused \in BOOLEAN,
               \A d \in Conversations : ~TurnTable!Recorded(d, r),
               LogOf(c)' = Append(LogOf(c), [request |-> r, refused |-> refused]),
               LastOf(c)' = IF refused THEN LastOf(c) ELSE r
        PROVE  TurnTable!Next
    <3>1. lastsNext = IF refused THEN lasts ELSE [lasts EXCEPT ![c] = r]
      BY <1>1, <2>4
    <3>2. TurnTable!Record(c, r, refused)
      BY <1>1, <2>4, <3>1 DEF TurnTable!Record
    <3>3. QED
      BY <2>1, <3>2 DEF TurnTable!Next
  <2>5. QED
    BY <2>2, <2>3, <2>4
<1>4. QED
  BY <1>2, <1>3

(* Steps that leave the tables alone are invisible.                        *)
LEMMA TablesStay ==
  ASSUME RecordsInv, RecordsInv', UNCHANGED <<cascade, row, number, erased>>,
         \A q \in Requests :
           number[q] > 0 => conv'[q] = conv[q] /\ blocked'[q] = blocked[q]
  PROVE  [TurnTable!Next]_(TurnTable!vars)
<1>1. ASSUME NEW c \in Conversations
      PROVE  LogOf(c)' = LogOf(c) /\ LastOf(c)' = LastOf(c)
  <2>1. /\ Intact(c)' <=> Intact(c)
        /\ TurnsOf(c)' = TurnsOf(c)
        /\ \A q \in TurnsOf(c) : number'[q] = number[q] /\ blocked'[q] = blocked[q]
    BY DEF Intact, TurnsOf
  <2>2. LastOf(c)' = LastOf(c)
    BY <2>1 DEF LastOf
  <2>3. QED
    BY <2>1, <2>2, LogStays
<1>2. QED
  BY <1>1 DEF TurnTable!vars

(* The log of a conversation ends with the highest number.                 *)
LEMMA LogIsSequence ==
  ASSUME NEW c \in Conversations, NEW k \in Nat
  PROVE  /\ RecordsInv /\ Intact(c)
         /\ k = 0 \/ \E q \in TurnsOf(c) : number[q] = k
         /\ \A q \in TurnsOf(c) : number[q] < k + 1
         => /\ LogOf(c) \in Seq([request : Requests, refused : BOOLEAN])
            /\ Len(LogOf(c)) = k /\ DOMAIN LogOf(c) = 1..k
<1> SUFFICES ASSUME RecordsInv, Intact(c),
                    k = 0 \/ \E q \in TurnsOf(c) : number[q] = k,
                    \A q \in TurnsOf(c) : number[q] < k + 1
             PROVE  /\ LogOf(c) \in Seq([request : Requests, refused : BOOLEAN])
                    /\ Len(LogOf(c)) = k /\ DOMAIN LogOf(c) = 1..k
  OBVIOUS
<1> DEFINE S == [request : Requests, refused : BOOLEAN]
           s == LogOf(c)
<1>1. /\ s = [n \in DOMAIN s |-> s[n]]
      /\ DOMAIN s = {number[q] : q \in TurnsOf(c)}
      /\ \A q \in TurnsOf(c) : s[number[q]] = TurnOf(q)
  BY LogIs
<1>2. \A q \in TurnsOf(c) : number[q] \in Nat /\ number[q] > 0 /\ number[q] <= k
  BY DEF TurnsOf, RecordsInv, TypeOK
<1>3. \A n \in 1..k : \E q \in TurnsOf(c) : number[q] = n
  BY DEF RecordsInv, TurnsNumberedInOrder
<1>4. DOMAIN s = 1..k
  BY <1>1, <1>2, <1>3
<1>5. \A n \in 1..k : s[n] \in S
  <2>1. \A q \in TurnsOf(c) : TurnOf(q) \in S
    BY DEF TurnOf, TurnsOf, RecordsInv, TypeOK
  <2>2. QED
    BY <1>1, <1>3, <2>1
<1> HIDE DEF s, S
<1>6. s \in [1..k -> S]
  BY <1>1, <1>4, <1>5
<1>7. s \in Seq(S) /\ Len(s) = k
  BY <1>6
<1>8. QED
  BY <1>4, <1>7 DEF s, S

LEMMA LogIsSequenceNext ==
  ASSUME NEW c \in Conversations, NEW k \in Nat
  PROVE  (/\ RecordsInv /\ Intact(c)
          /\ k = 0 \/ \E q \in TurnsOf(c) : number[q] = k
          /\ \A q \in TurnsOf(c) : number[q] < k + 1
          => /\ LogOf(c) \in Seq([request : Requests, refused : BOOLEAN])
             /\ Len(LogOf(c)) = k /\ DOMAIN LogOf(c) = 1..k)'
BY LogIsSequence, PTL

(* A commit that is not rejected appends its turn to the log, or is made   *)
(* after the log was deleted.                                              *)
LEMMA CommitRecords ==
  ASSUME RecordsInv, RecordsInv', NEW r \in Requests, Commit(r), ~Rejected(r)
  PROVE  [TurnTable!Next]_(TurnTable!vars)
<1>1. /\ conv[r] \in Conversations /\ phase[r] = "committing" /\ top[r] \in Nat
      /\ number[r] = 0 /\ blocked[r] \in BOOLEAN
  <2>1. phase[r] = "committing" /\ top[r] \in Numbers /\ number[r] \in Nat
    BY DEF Commit, RecordsInv, TypeOK
  <2>2. conv[r] \in Conversations /\ number[r] = 0
    BY <2>1 DEF RecordsInv, Located
  <2>3. QED
    BY <2>1, <2>2, NumbersAreNatural DEF RecordsInv, TypeOK
<1>c. PICK c \in Conversations : c = conv[r]
  BY <1>1
<1>n. PICK n \in Nat : n = top[r] + 1
  BY <1>1
<1>2. /\ \A q \in Requests \ {r} : number'[q] = number[q]
      /\ number'[r] = n
      /\ row'[c] = NewRow(r)
      /\ \A d \in Conversations \ {c} : row'[d] = row[d]
      /\ UNCHANGED <<cascade, conv, blocked, erased>>
  BY <1>1, <1>c, <1>n DEF Commit, RecordsInv, TypeOK, request
<1>3. /\ TurnsOf(c)' = TurnsOf(c) \cup {r} /\ r \notin TurnsOf(c)
      /\ \A d \in Conversations \ {c} : TurnsOf(d)' = TurnsOf(d)
      /\ \A d : Intact(d)' <=> Intact(d)
      /\ \A d : \A q \in TurnsOf(d) : q \in Requests \ {r}
  BY <1>1, <1>2, <1>c, <1>n DEF TurnsOf, Intact
<1>4. \A d \in Conversations \ {c} : LogOf(d)' = LogOf(d) /\ LastOf(d)' = LastOf(d)
  <2>1. ASSUME NEW d \in Conversations \ {c}
        PROVE  LogOf(d)' = LogOf(d) /\ LastOf(d)' = LastOf(d)
    <3>1. \A q \in TurnsOf(d) : number'[q] = number[q] /\ blocked'[q] = blocked[q]
      BY <1>2, <1>3
    <3>2. LastOf(d)' = LastOf(d)
      BY <1>2, <1>3 DEF LastOf
    <3>3. QED
      BY <1>3, <3>1, <3>2, LogStays
  <2>2. QED
    BY <2>1
<1>5. CASE ~Intact(c)
  <2>1. /\ LogOf(c) = <<>> /\ LogOf(c)' = <<>> /\ LastOf(c) = None /\ LastOf(c)' = None
    BY <1>3, <1>5 DEF LogOf, LastOf
  <2>2. QED
    BY <1>1, <1>4, <2>1, OneConversation
<1>6. CASE Intact(c)
  <2>1. /\ top[r] = 0 \/ \E q \in TurnsOf(c) : number[q] = top[r]
        /\ \A q \in TurnsOf(c) : number[q] < n
    BY <1>1, <1>6, <1>c, <1>n, NextNumberIsHighest DEF RecordsInv, ReadsAreCovered
  <2>2. LastOf(c)' = IF blocked[r] THEN LastOf(c) ELSE r
    <3>1. NewRow(r) # NoRow
      <4>1. NewRow(r) \in [count : Nat, last : Requests \cup {None}]
        BY <1>1 DEF NewRow, Rejected, RecordsInv, TypeOK
      <4>2. QED
        BY <4>1, RecordsAssumption DEF RecordsAssumption
    <3>2. NewRow(r).last = IF ~blocked[r] THEN r
                           ELSE IF seen[r] = NoRow THEN None ELSE row[c].last
      BY <1>c DEF NewRow
    <3>3. seen[r] = NoRow <=> row[c] = NoRow
      BY <1>c DEF Rejected
    <3>4. LastOf(c)' = NewRow(r).last
      BY <1>2, <1>3, <1>6, <3>1 DEF LastOf
    <3>5. LastOf(c) = IF seen[r] = NoRow THEN None ELSE row[c].last
      BY <1>6, <3>3 DEF LastOf
    <3>6. QED
      BY <1>1, <3>2, <3>4, <3>5
  <2>3. LogOf(c)' = Append(LogOf(c), TurnOf(r))
    <3> DEFINE S == [request : Requests, refused : BOOLEAN]
               s == LogOf(c)
               t == LogOf(c)'
    <3>1. s \in Seq(S) /\ Len(s) = top[r] /\ DOMAIN s = 1..top[r]
      BY <1>1, <1>6, <1>n, <2>1, LogIsSequence
    <3>2. t \in Seq(S) /\ Len(t) = n /\ DOMAIN t = 1..n
      <4>1. \E q \in TurnsOf(c)' : number'[q] = n
        BY <1>2, <1>3
      <4>2. \A q \in TurnsOf(c)' : number'[q] < n + 1
        <5>1. \A q \in TurnsOf(c) : number'[q] = number[q] /\ number[q] \in Nat
          BY <1>2, <1>3 DEF RecordsInv, TypeOK
        <5>2. QED
          BY <1>2, <1>3, <2>1, <5>1
      <4>3. Intact(c)'
        BY <1>3, <1>6
      <4>4. QED
        BY <4>1, <4>2, <4>3, LogIsSequenceNext
    <3>3. t[n] = TurnOf(r) /\ \A i \in 1..top[r] : t[i] = s[i]
      <4>1. \A q \in TurnsOf(c) : s[number[q]] = TurnOf(q)
        BY <1>6, LogIs
      <4>2. \A q \in TurnsOf(c)' : t[number'[q]] = TurnOf(q)'
        BY <1>3, <1>6, LogIsNext
      <4>3. \A q \in TurnsOf(c)' : TurnOf(q)' = TurnOf(q)
        BY <1>2 DEF TurnOf
      <4>4. \A i \in 1..top[r] : \E q \in TurnsOf(c) : number[q] = i
        BY <1>1, <1>6, <2>1 DEF RecordsInv, TurnsNumberedInOrder
      <4>5. r \in TurnsOf(c)' /\ \A q \in TurnsOf(c) :
                                  q \in TurnsOf(c)' /\ number'[q] = number[q]
        BY <1>2, <1>3
      <4> HIDE DEF s, t
      <4>6. t[n] = TurnOf(r)
        BY <1>2, <4>2, <4>3, <4>5
      <4>7. ASSUME NEW i \in 1..top[r] PROVE t[i] = s[i]
        BY <4>1, <4>2, <4>3, <4>4, <4>5, <4>7
      <4>8. QED
        BY <4>6, <4>7
    <3>4. TurnOf(r) \in S
      BY <1>1 DEF TurnOf
    <3> HIDE DEF s, t, S
    <3>5. /\ Append(s, TurnOf(r)) \in Seq(S) /\ Len(Append(s, TurnOf(r))) = n
          /\ \A i \in 1..top[r] : Append(s, TurnOf(r))[i] = s[i]
          /\ Append(s, TurnOf(r))[n] = TurnOf(r)
      BY <1>1, <1>n, <3>1, <3>4, AppendProperties
    <3>6. \A i \in 1..n : i \in 1..top[r] \/ i = n
      BY <1>1, <1>n
    <3>7. t = Append(s, TurnOf(r))
      BY <3>2, <3>3, <3>5, <3>6, SeqEqual
    <3>8. QED
      BY <3>7 DEF s, t
  <2>4. QED
    BY <1>1, <1>4, <2>2, <2>3, NotRecorded, OneConversation DEF TurnOf
<1>7. QED
  BY <1>5, <1>6

LEMMA DeleteRowDeletes ==
  ASSUME RecordsInv, RecordsInv', NEW d \in Deletions, NEW c \in Conversations,
         DeleteRow(d, c)
  PROVE  [TurnTable!Next]_(TurnTable!vars)
<1>1. UNCHANGED <<cascade, conv, blocked>>
  BY DEF DeleteRow, request
<1>2. CASE row[c] = NoRow
  <2>1. row' = row /\ number' = number /\ erased' = erased
    BY <1>2 DEF DeleteRow, RecordsInv, TypeOK
  <2>2. QED
    BY <1>1, <2>1, TablesStay
<1>3. CASE row[c] # NoRow
  <2>1. /\ row'[c] = NoRow /\ erased' = erased \cup {c}
        /\ \A x \in Conversations \ {c} : row'[x] = row[x]
        /\ \A q \in Requests :
             number'[q] = IF cascade /\ conv[q] = c THEN 0 ELSE number[q]
    BY <1>3 DEF DeleteRow, RecordsInv, TypeOK
  <2>2. ASSUME NEW x \in Conversations, x # c \/ ~cascade
        PROVE  LogOf(x)' = LogOf(x)
    <3>1. /\ Intact(x)' <=> Intact(x)
          /\ TurnsOf(x)' = TurnsOf(x)
          /\ \A q \in TurnsOf(x) : number'[q] = number[q] /\ blocked'[q] = blocked[q]
      BY <1>1, <2>1, <2>2 DEF Intact, TurnsOf
    <3>2. QED
      BY <3>1, LogStays
  <2>3. \A x \in Conversations \ {c} : LastOf(x)' = LastOf(x)
    BY <1>1, <2>1 DEF LastOf, Intact
  <2>4. LastOf(c)' = None
    BY <2>1 DEF LastOf
  <2>5. LogOf(c)' = LogOf(c) \/ LogOf(c)' = <<>>
    <3>1. cascade => LogOf(c)' = <<>>
      BY <1>1, <2>1 DEF LogOf, Intact
    <3>2. QED
      BY <2>2, <3>1
  <2>6. QED
    BY <2>2, <2>3, <2>4, <2>5, OneConversation
<1>4. QED
  BY <1>2, <1>3

LEMMA StepRecords ==
  ASSUME RecordsInv, RecordsInv', [Next]_vars
  PROVE  [TurnTable!Next]_(TurnTable!vars)
<1>1. CASE UNCHANGED vars
  BY <1>1, TablesStay DEF vars, tables, request
<1>2. ASSUME NEW r \in Requests, Start(r)
      PROVE  [TurnTable!Next]_(TurnTable!vars)
  <2>1. PICK w, c, p : Accept(r, w, c, p)
    BY <1>2 DEF Start, StartNew, StartInConversation, StartFromResponse
  <2>2. phase[r] = "idle" /\ UNCHANGED <<cascade, row, number, erased, blocked>>
        /\ conv' = [conv EXCEPT ![r] = c]
    BY <2>1 DEF Accept, tables
  <2>3. ~(number[r] > 0) /\ \A q \in Requests \ {r} : conv'[q] = conv[q]
    BY <2>2 DEF RecordsInv, Located, TypeOK
  <2>4. QED
    BY <2>2, <2>3, TablesStay
<1>3. ASSUME NEW r \in Requests, NEW refusal \in BOOLEAN, Answered(r, refusal)
      PROVE  [TurnTable!Next]_(TurnTable!vars)
  <2>1. /\ phase[r] = "running" /\ UNCHANGED <<cascade, row, number, erased, conv>>
        /\ blocked' = [blocked EXCEPT ![r] = refusal]
    BY <1>3 DEF Answered, tables
  <2>2. ~(number[r] > 0) /\ \A q \in Requests \ {r} : blocked'[q] = blocked[q]
    BY <2>1 DEF RecordsInv, Located, TypeOK
  <2>3. QED
    BY <2>1, <2>2, TablesStay
<1>4. ASSUME NEW r \in Requests, Store(r)
      PROVE  [TurnTable!Next]_(TurnTable!vars)
  <2>1. CASE Commit(r) /\ ~Rejected(r)
    BY <2>1, CommitRecords
  <2>2. CASE ~(Commit(r) /\ ~Rejected(r))
    <3>1. UNCHANGED <<cascade, row, number, erased, conv, blocked>>
      BY <1>4, <2>2 DEF Store, ReadConversation, ReadTopTurn, Commit, StoreInCache,
         tables, request
    <3>2. QED
      BY <3>1, TablesStay
  <2>3. QED
    BY <2>1, <2>2
<1>5. ASSUME NEW r \in Requests, Fail(r)
      PROVE  [TurnTable!Next]_(TurnTable!vars)
  BY <1>5, TablesStay DEF Fail, tables, request
<1>6. ASSUME NEW d \in Deletions, Delete(d)
      PROVE  [TurnTable!Next]_(TurnTable!vars)
  <2>1. CASE \E c \in Conversations : DeleteRow(d, c)
    BY <2>1, DeleteRowDeletes
  <2>2. CASE DeleteInOgx(d) \/ DeleteUnavailable(d)
    BY <2>2, TablesStay DEF DeleteInOgx, DeleteUnavailable, tables, request
  <2>3. QED
    BY <1>6, <2>1, <2>2 DEF Delete
<1>7. ASSUME NEW c \in Conversations, DeleteFromCache(c)
      PROVE  [TurnTable!Next]_(TurnTable!vars)
  BY <1>7, TablesStay DEF DeleteFromCache, tables, request
<1>8. QED
  BY <1>1, <1>2, <1>3, <1>4, <1>5, <1>6, <1>7 DEF Next, Answer, AnswerUnstored

(* The sessions of store_query_results implement a log that is appended to *)
(* atomically, for any number of workers and requests: what one session    *)
(* read is never stale when its commit is accepted.                        *)
THEOREM TablesImplementTurnLog == Spec => ImplementsTurnLog
<1>1. Init => TurnTable!Init
  <2>1. SUFFICES ASSUME Init PROVE TurnTable!Init
    OBVIOUS
  <2>2. ASSUME NEW c \in Conversations PROVE LogOf(c) = <<>> /\ LastOf(c) = None
    <3>1. TurnsOf(c) = {} /\ row[c] = NoRow
      <4>1. row[c] = NoRow /\ \A q \in Requests : number[q] = 0
        BY <2>1 DEF Init
      <4>2. \A q \in Requests : ~(number[q] > 0)
        BY <4>1
      <4>3. QED
        BY <4>1, <4>2 DEF TurnsOf
    <3>2. LastOf(c) = None
      BY <3>1 DEF LastOf
    <3>3. LogOf(c) = <<>>
      BY <3>1 DEF LogOf
    <3>4. QED
      BY <3>2, <3>3
  <2>3. QED
    BY <2>2 DEF TurnTable!Init
<1>2. RecordsInv /\ RecordsInv' /\ [Next]_vars => [TurnTable!Next]_(TurnTable!vars)
  BY StepRecords
<1>3. QED
  BY <1>1, <1>2, RecordsInvariant, PTL DEF Spec, ImplementsTurnLog, TurnTable!Spec
=============================================================================
