--------------------------- MODULE OneWorker_proofs ---------------------------
(***************************************************************************)
(* What ConversationCompaction keeps when one process serves the           *)
(* conversation: nothing is told twice, the boundary of the summarized     *)
(* turns does not move back, and a cache whose inserts are reliable says   *)
(* what the markers say.                                                   *)
(***************************************************************************)
EXTENDS ConversationCompaction_proofs, WellFoundedInduction

(* The registry of locks is a variable of the process                      *)
(* (_conversation_locks): requests of one process share it.                *)
OneRegistry == \A r, q \in Requests : WorkerOf[r] = WorkerOf[q]

-----------------------------------------------------------------------------
(* The inductive invariant of one process.                                 *)

(* Whoever is in the section holds the lock of its worker.                 *)
SectionIsLocked == \A r \in Requests : InSection(r) => holder[WorkerOf[r]] = r

(* A message is stored once, by the request that is done.                  *)
MessagesAreDistinct ==
  /\ \A i, j \in MessagePositions(items) :
       i # j => items[i].about \cap items[j].about = {}
  /\ \A i \in MessagePositions(items) : \A x \in items[i].about :
       x[1] \in Requests /\ pc[x[1]] = "done"

(* Later markers count at least as much as earlier ones, and each speaks   *)
(* for messages beyond those that the earlier ones count.                  *)
MarkersInOrder(s) ==
  \A m, k \in Markers(s) : m < k => s[m].covers <= s[k].covers
MarkersTellNext(s) ==
  \A m \in Markers(s) : \A x \in s[m].about :
    \E i \in MessagePositions(s) :
      /\ x \in s[i].about /\ i <= s[m].covers
      /\ \A k \in Markers(s) : k < m => s[k].covers < i

(* So will the marker of the chunk that is being summarized.               *)
ChunkIsNext(r) ==
  /\ \A m \in Markers(items) : items[m].covers <= chunk[r].covers
  /\ \A x \in chunk[r].about :
       \E i \in MessagePositions(items) :
         /\ x \in items[i].about /\ i <= chunk[r].covers
         /\ \A m \in Markers(items) : items[m].covers < i

OneWorkerInv ==
  /\ SectionIsLocked
  /\ MessagesAreDistinct
  /\ MarkersInOrder(items)
  /\ MarkersTellNext(items)
  /\ \A r \in Requests : pc[r] \in {"summarize", "mark"} => ChunkIsNext(r)

-----------------------------------------------------------------------------
(* The inductive invariant of a reliable cache.                            *)

(* Every request has the cache of the one user, no INSERT of a row fails,  *)
(* and no request ends between a marker and its row, nor between the two   *)
(* statements of a fold.  Reads, deletions and the fold's LLM call may     *)
(* fail, and requests may end anywhere else.                               *)
ReliableCache ==
  /\ OneRegistry
  /\ CacheUsers = Requests
  /\ \A r, q \in Requests : UserOf[r] = UserOf[q]
  /\ CacheFaults \cap {"write", "insert"} = {}
  /\ AbortPoints \cap {"record", "replace"} = {}

Told(rs) == UNION SummarySet(rs)
Marked == About(items, Markers(items))

(* The rows tell what the markers tell, but for the chunk whose marker was *)
(* just written, and but while they are being replaced.                    *)
BehindMarkers == {"record", "replace"}
RowsFollowMarkers ==
  /\ \A u \in Users : (\A r \in Requests : UserOf[r] # u) => cached[u] = <<>>
  /\ \A r \in Requests :
       pc[r] = "record" => Told(cached[UserOf[r]]) \cup chunk[r].about = Marked
  /\ \A r \in Requests : pc[r] = "replace" => cached[UserOf[r]] = <<>>
  /\ (\A q \in Requests : pc[q] \notin BehindMarkers) =>
       \A r \in Requests : Told(cached[UserOf[r]]) = Marked

(* So do the rows and the summaries that a request holds.                  *)
LocalRowsFollow(r) ==
  /\ pc[r] \in {"summarize", "mark"} =>
       /\ UNION sums[r] = Marked
       /\ rows[r] # <<>> => Told(rows[r]) = Marked
  /\ pc[r] = "record" =>
       /\ (UNION sums[r]) \cup chunk[r].about = Marked
       /\ rows[r] # <<>> => Told(rows[r]) \cup chunk[r].about = Marked
  /\ pc[r] \in {"fold", "replace"} =>
       UNION sums[r] = Marked /\ Told(rows[r]) = Marked

CacheInv ==
  /\ RowsFollowMarkers
  /\ \A r \in Requests : LocalRowsFollow(r)

-----------------------------------------------------------------------------
(* Lemmas about lists of items.                                            *)

(* Where there are markers, one of them is the last.                       *)
LEMMA LastMarkerExists ==
  ASSUME NEW s \in Seq(Item), NEW m0 \in Markers(s)
  PROVE  \E m : IsLastMarker(s, m)
<1> DEFINE T == {Len(s) - k : k \in Markers(s)}
<1>1. /\ Markers(s) \subseteq 1 .. Len(s) /\ Len(s) \in Nat
  BY LenProperties DEF Markers
<1>2. T \subseteq Nat /\ T # {}
  BY <1>1
<1> HIDE DEF T
<1>3. PICK x \in T : \A y \in T : ~ (<<y, x>> \in OpToRel(<, Nat))
  BY <1>2, NatLessThanWellFounded, WFMin
<1>4. PICK m \in Markers(s) : x = Len(s) - m
  BY <1>3 DEF T
<1>5. ASSUME NEW k \in Markers(s) PROVE k <= m
  <2>1. Len(s) - k \in T
    BY DEF T
  <2>2. ~ (Len(s) - k < Len(s) - m)
    BY <1>2, <1>3, <1>4, <2>1 DEF OpToRel
  <2>3. k \in Int /\ m \in Int /\ Len(s) \in Int
    BY <1>1
  <2>4. QED
    BY <2>2, <2>3
<1>6. QED
  BY <1>4, <1>5 DEF IsLastMarker

(* Behind the boundary of any marker is behind the boundary of the last.   *)
LEMMA BehindAnyMarker ==
  ASSUME NEW s \in Seq(Item), MarkersInOrder(s), NEW i \in DOMAIN s,
         NEW m \in Markers(s)
  PROVE  /\ i <= s[m].covers => i \notin ItemsAfterLastMarker(s)
         /\ i \in ItemsAfterLastMarker(s) => s[m].covers < i
<1>1. PICK l : IsLastMarker(s, l)
  BY LastMarkerExists
<1>2. l \in Markers(s) /\ m <= l
  BY <1>1 DEF IsLastMarker
<1>3. /\ m \in Nat /\ l \in Nat /\ i \in Nat
      /\ s[m].covers \in Nat /\ s[l].covers \in Nat
  BY <1>2, ItemAt DEF Markers
<1>4. s[m].covers <= s[l].covers
  <2>1. CASE m = l
    BY <1>3, <2>1
  <2>2. CASE m < l
    BY <1>2, <2>2 DEF MarkersInOrder
  <2>3. QED
    BY <1>2, <1>3, <2>1, <2>2
<1>5. i \in ItemsAfterLastMarker(s) => i > s[l].covers
  BY <1>1, <1>2 DEF ItemsAfterLastMarker
<1>6. QED
  BY <1>3, <1>4, <1>5

(* A marker is appended behind all items.                                  *)
LEMMA MarkerAppended ==
  ASSUME NEW s \in Seq(Item), NEW m \in Item, m.kind = "marker"
  PROVE  LET t == Append(s, m)
         IN  /\ Markers(t) = Markers(s) \cup {Len(s) + 1}
             /\ MessagePositions(t) = MessagePositions(s)
             /\ \A i \in DOMAIN s : t[i] = s[i] /\ i <= Len(s)
             /\ t[Len(s) + 1] = m /\ Len(s) + 1 \notin DOMAIN s
             /\ t \in Seq(Item) /\ Prefix(s, t)
<1> DEFINE t == Append(s, m)
<1>1. /\ t \in Seq(Item) /\ Len(t) = Len(s) + 1 /\ Len(s) \in Nat
      /\ DOMAIN t = 1 .. Len(s) + 1 /\ DOMAIN s = 1 .. Len(s)
      /\ \A i \in 1 .. Len(s) : t[i] = s[i]
      /\ t[Len(s) + 1] = m
  BY AppendProperties, LenProperties
<1> HIDE DEF t
<1>2. /\ Markers(t) = Markers(s) \cup {Len(s) + 1}
      /\ MessagePositions(t) = MessagePositions(s)
  BY <1>1 DEF Markers, MessagePositions
<1>3. Prefix(s, t)
  BY <1>1 DEF Prefix
<1>4. QED
  BY <1>1, <1>2, <1>3 DEF t

(* A turn is appended behind all items, and each of its messages is its    *)
(* own.                                                                    *)
LEMMA TurnAppended ==
  ASSUME NEW s \in Seq(Item), NEW r \in Requests, NEW shape \in TurnShapes
  PROVE  LET t == s \o TurnItems(r, shape)
         IN  /\ Markers(t) = Markers(s)
             /\ MessagePositions(s) \subseteq MessagePositions(t)
             /\ \A i \in DOMAIN s : t[i] = s[i]
             /\ \A i \in MessagePositions(t) \ MessagePositions(s) :
                  t[i].about = {<<r, i - Len(s)>>} /\ i \in Nat
             /\ Len(s) \in Nat /\ t \in Seq(Item) /\ Prefix(s, t)
<1> DEFINE e == TurnItems(r, shape)
           t == s \o e
<1>1. /\ e \in Seq(Item) /\ \A k \in DOMAIN e : e[k].kind # "marker"
  BY TurnItemsType
<1>2. \A k \in DOMAIN e : e[k].kind = "message" => e[k].about = {<<r, k>>}
  BY DEF TurnItems
<1> HIDE DEF e
<1>3. Prefix(s, s)
  BY LenProperties DEF Prefix
<1>4. /\ Prefix(s, t) /\ t \in Seq(Item) /\ Len(t) = Len(s) + Len(e)
      /\ \A i \in DOMAIN t : t[i] = IF i <= Len(s) THEN s[i] ELSE e[i - Len(s)]
  BY <1>1, <1>3, PrefixConcat
<1>5. /\ DOMAIN s = 1 .. Len(s) /\ DOMAIN t = 1 .. Len(s) + Len(e)
      /\ DOMAIN e = 1 .. Len(e) /\ Len(s) \in Nat /\ Len(e) \in Nat
  BY <1>1, <1>4, LenProperties
<1> HIDE DEF t
<1>6. \A i \in DOMAIN s : i \in DOMAIN t /\ t[i] = s[i]
  BY <1>4, <1>5
<1>7. \A i \in DOMAIN t \ DOMAIN s :
        i - Len(s) \in DOMAIN e /\ t[i] = e[i - Len(s)] /\ i \in Nat
  BY <1>4, <1>5
<1>8. Markers(t) = Markers(s)
  BY <1>1, <1>6, <1>7 DEF Markers
<1>9. MessagePositions(s) \subseteq MessagePositions(t)
  BY <1>6 DEF MessagePositions
<1>10. \A i \in MessagePositions(t) \ MessagePositions(s) :
         t[i].about = {<<r, i - Len(s)>>} /\ i \in Nat
  BY <1>2, <1>6, <1>7 DEF MessagePositions
<1>11. QED
  BY <1>4, <1>5, <1>6, <1>8, <1>9, <1>10 DEF t, e

(* What an item speaks for, unless it is a marker, is a message's.         *)
LEMMA TurnsAreMessages ==
  ASSUME NEW s \in Seq(Item), NEW i \in DOMAIN s \ Markers(s), s[i].about # {}
  PROVE  i \in MessagePositions(s)
BY ItemAt DEF Markers, MessagePositions, Item

-----------------------------------------------------------------------------
(* The invariant of one process is kept.                                   *)

(* Two requests in the section are one.                                    *)
LEMMA OneInSection ==
  ASSUME OneRegistry, SectionIsLocked, NEW r \in Requests, NEW q \in Requests,
         InSection(r), InSection(q)
  PROVE  q = r
BY DEF OneRegistry, SectionIsLocked

(* A step that leaves the items alone concerns one request only.           *)
LEMMA OneWorkerFrame ==
  ASSUME OneWorkerInv, items' = items, NEW r \in Requests,
         \A q \in Requests \ {r} :
           /\ pc'[q] = pc[q] /\ chunk'[q] = chunk[q]
           /\ InSection(q) => holder'[WorkerOf[q]] = q,
         InSection(r)' => holder'[WorkerOf[r]] = r,
         pc[r] # "done",
         pc'[r] \in {"summarize", "mark"} => ChunkIsNext(r)'
  PROVE  OneWorkerInv'
<1>1. SectionIsLocked'
  BY DEF SectionIsLocked, InSection
<1>2. MessagesAreDistinct'
  BY DEF OneWorkerInv, MessagesAreDistinct
<1>3. ASSUME NEW q \in Requests, pc'[q] \in {"summarize", "mark"}
      PROVE  ChunkIsNext(q)'
  <2>1. CASE q = r
    BY <1>3, <2>1
  <2>2. CASE q # r
    BY <1>3, <2>2 DEF OneWorkerInv, ChunkIsNext
  <2>3. QED
    BY <2>1, <2>2
<1>4. QED
  BY <1>1, <1>2, <1>3 DEF OneWorkerInv

(* Whoever leaves the section frees the lock that nobody else has.         *)
LEMMA ReleaseIsOwn ==
  ASSUME TypeOK, SectionIsLocked, NEW r \in Requests,
         holder[WorkerOf[r]] = r, Release(r)
  PROVE  \A q \in Requests \ {r} : InSection(q) => holder'[WorkerOf[q]] = q
BY ConstantsAssumption DEF SectionIsLocked, Release, TypeOK

LEMMA ConcludeKeepsOneWorker ==
  ASSUME TypeOK, OneWorkerInv, items' = items, NEW r \in Requests,
         InSection(r), NEW s, NEW ss, NEW rec, Conclude(r, s, ss, rec)
  PROVE  OneWorkerInv'
<1>1. /\ pc'[r] \in {"infer", "answered"} /\ pc[r] # "done"
      /\ \A q \in Requests \ {r} : pc'[q] = pc[q] /\ chunk'[q] = chunk[q]
  BY DEF Conclude, DropLocals, Goto, TypeOK, LocalsOK, InSection
<1>2. \A q \in Requests \ {r} : InSection(q) => holder'[WorkerOf[q]] = q
  BY ReleaseIsOwn DEF Conclude, OneWorkerInv, SectionIsLocked
<1>3. ~ InSection(r)'
  BY <1>1 DEF InSection
<1>4. QED
  BY <1>1, <1>2, <1>3, OneWorkerFrame

LEMMA FoldOrConcludeKeepsOneWorker ==
  ASSUME TypeOK, OneWorkerInv, items' = items, NEW r \in Requests,
         InSection(r), NEW s, NEW ss, NEW rs, NEW rec,
         FoldOrConclude(r, s, ss, rs, rec)
  PROVE  OneWorkerInv'
<1>1. CASE StartFold(r, s, ss, rs, rec)
  <2>1. /\ pc'[r] = "fold" /\ pc[r] # "done" /\ holder' = holder
        /\ \A q \in Requests \ {r} : pc'[q] = pc[q] /\ chunk'[q] = chunk[q]
    BY <1>1 DEF StartFold, Goto, TypeOK, LocalsOK, InSection
  <2>2. \A q \in Requests : InSection(q) => holder'[WorkerOf[q]] = q
    BY <2>1 DEF OneWorkerInv, SectionIsLocked
  <2>3. QED
    BY <2>1, <2>2, OneWorkerFrame
<1>2. QED
  BY <1>1, ConcludeKeepsOneWorker DEF FoldOrConclude

(* The turns split off the recent ones come after all that markers count.  *)
LEMMA SplitIsNext ==
  ASSUME TypeOK, MarkersInOrder(items), NEW r \in Requests, items' = items,
         NEW split \in SplitPoints(items, ItemsAfterLastMarker(items)),
         Old(ItemsAfterLastMarker(items), split) # {},
         chunk'[r].about = About(items, Old(ItemsAfterLastMarker(items), split)),
         chunk'[r].covers = CoveredItemCount(split)
  PROVE  ChunkIsNext(r)'
<1> DEFINE rec == ItemsAfterLastMarker(items)
<1>1. /\ items \in Seq(Item) /\ rec \subseteq DOMAIN items \ Markers(items)
      /\ DOMAIN items = 1 .. Len(items) /\ Len(items) \in Nat
      /\ split \in 1 .. Len(items) + 1
  BY SplitKeepsAll, StoredType DEF TypeOK, ItemsAfterLastMarker
<1>2. ASSUME NEW i \in Old(rec, split)
      PROVE  /\ i \in DOMAIN items \ Markers(items) /\ i \in Nat /\ i < split
             /\ i <= chunk'[r].covers
             /\ \A m \in Markers(items) : items[m].covers < i
  <2>1. i \in rec /\ i < split
    BY DEF Old
  <2>2. i \in DOMAIN items \ Markers(items) /\ i \in Nat
    BY <1>1, <2>1
  <2>3. i <= chunk'[r].covers
    BY <1>1, <2>1, <2>2 DEF CoveredItemCount
  <2>4. QED
    BY <1>1, <2>1, <2>2, <2>3, BehindAnyMarker
<1>3. ASSUME NEW m \in Markers(items) PROVE items[m].covers <= chunk'[r].covers
  <2>1. PICK i \in Old(rec, split) : TRUE
    OBVIOUS
  <2>2. items[m].covers < i /\ i <= chunk'[r].covers /\ i \in Nat
    BY <1>2
  <2>3. items[m].covers \in Nat /\ chunk'[r].covers \in Int
    BY <1>1, ItemAt DEF Markers, CoveredItemCount
  <2>4. QED
    BY <2>2, <2>3
<1>4. ASSUME NEW x \in chunk'[r].about
      PROVE  \E i \in MessagePositions(items) :
               /\ x \in items[i].about /\ i <= chunk'[r].covers
               /\ \A m \in Markers(items) : items[m].covers < i
  <2>1. PICK i \in Old(rec, split) : x \in items[i].about
    BY <1>4 DEF About
  <2>2. i \in MessagePositions(items)
    BY <1>1, <1>2, <2>1, TurnsAreMessages
  <2>3. QED
    BY <1>2, <2>1, <2>2
<1>5. QED
  BY <1>3, <1>4 DEF ChunkIsNext

(* The marker that is written comes after all markers, and counts and      *)
(* tells what comes after them.                                            *)
LEMMA WriteMarkerKeepsOneWorker ==
  ASSUME OneRegistry, TypeOK, OneWorkerInv, NEW r \in Requests, WriteMarker(r)
  PROVE  OneWorkerInv'
<1> DEFINE m == MarkerItem(chunk[r])
           t == Append(items, m)
           n == Len(items) + 1
<1>1. /\ pc[r] = "mark" /\ pc'[r] = "record" /\ items' = t
      /\ \A q \in Requests \ {r} : pc'[q] = pc[q]
      /\ UNCHANGED <<chunk, holder>>
  BY DEF WriteMarker, Goto, locals, TypeOK
<1>2. /\ m \in Item /\ m.kind = "marker" /\ items \in Seq(Item)
      /\ m.about = chunk[r].about /\ m.covers = chunk[r].covers
      /\ \A i \in DOMAIN items : i \in Nat
  BY LenProperties DEF MarkerItem, Item, TypeOK, LocalsOK
<1> HIDE DEF m
<1>3. /\ Markers(t) = Markers(items) \cup {n}
      /\ MessagePositions(t) = MessagePositions(items)
      /\ \A i \in DOMAIN items : t[i] = items[i] /\ i < n
      /\ t[n] = m /\ n \notin DOMAIN items /\ n \in Nat
  <2>1. Len(items) \in Nat
    BY <1>2, LenProperties
  <2>2. QED
    BY <1>2, <2>1, MarkerAppended
<1> HIDE DEF t, n
<1>4. /\ Markers(items) \subseteq DOMAIN items
      /\ MessagePositions(items) \subseteq DOMAIN items
  BY DEF Markers, MessagePositions
<1>5. ChunkIsNext(r)
  BY <1>1 DEF OneWorkerInv
<1>6. SectionIsLocked'
  BY <1>1 DEF OneWorkerInv, SectionIsLocked, InSection
<1>7. MessagesAreDistinct'
  BY <1>1, <1>3, <1>4 DEF OneWorkerInv, MessagesAreDistinct
<1>8. MarkersInOrder(t)
  <2> SUFFICES ASSUME NEW a \in Markers(t), NEW b \in Markers(t), a < b
               PROVE  t[a].covers <= t[b].covers
    BY DEF MarkersInOrder
  <2>1. a \in Markers(items)
    BY <1>2, <1>3, <1>4
  <2>2. CASE b \in Markers(items)
    BY <1>3, <1>4, <2>1, <2>2 DEF OneWorkerInv, MarkersInOrder
  <2>3. CASE b = n
    BY <1>2, <1>3, <1>4, <1>5, <2>1, <2>3 DEF ChunkIsNext
  <2>4. QED
    BY <1>3, <2>2, <2>3
<1>9. MarkersTellNext(t)
  <2> SUFFICES ASSUME NEW a \in Markers(t), NEW x \in t[a].about
               PROVE  \E i \in MessagePositions(t) :
                        /\ x \in t[i].about /\ i <= t[a].covers
                        /\ \A k \in Markers(t) : k < a => t[k].covers < i
    BY DEF MarkersTellNext
  <2>1. CASE a \in Markers(items)
    <3>1. PICK i \in MessagePositions(items) :
            /\ x \in items[i].about /\ i <= items[a].covers
            /\ \A k \in Markers(items) : k < a => items[k].covers < i
      BY <1>3, <1>4, <2>1 DEF OneWorkerInv, MarkersTellNext
    <3>2. \A k \in Markers(t) : k < a => k \in Markers(items)
      BY <1>2, <1>3, <1>4, <2>1
    <3>3. QED
      BY <1>3, <1>4, <2>1, <3>1, <3>2
  <2>2. CASE a = n
    <3>1. PICK i \in MessagePositions(items) :
            /\ x \in items[i].about /\ i <= chunk[r].covers
            /\ \A k \in Markers(items) : items[k].covers < i
      BY <1>2, <1>3, <1>5, <2>2 DEF ChunkIsNext
    <3>2. \A k \in Markers(t) : k < a => k \in Markers(items)
      BY <1>3, <2>2
    <3>3. QED
      BY <1>2, <1>3, <1>4, <2>2, <3>1, <3>2
  <2>3. QED
    BY <1>3, <2>1, <2>2
<1>10. ASSUME NEW q \in Requests, pc'[q] \in {"summarize", "mark"}
       PROVE  FALSE
  <2>1. q # r /\ pc[q] \in {"summarize", "mark"}
    BY <1>1, <1>10
  <2>2. InSection(q) /\ InSection(r) /\ SectionIsLocked
    BY <1>1, <2>1 DEF InSection, OneWorkerInv
  <2>3. QED
    BY <2>1, <2>2, OneInSection
<1>11. QED
  BY <1>1, <1>6, <1>7, <1>8, <1>9, <1>10 DEF OneWorkerInv

(* The turn of a request that is done is stored once, behind all items.    *)
LEMMA StoreTurnKeepsOneWorker ==
  ASSUME TypeOK, OneWorkerInv, NEW r \in Requests, StoreTurn(r)
  PROVE  OneWorkerInv'
<1>1. /\ pc[r] = "answered" /\ pc'[r] = "done"
      /\ \A q \in Requests \ {r} : pc'[q] = pc[q]
      /\ UNCHANGED <<chunk, holder>> /\ items \in Seq(Item)
  BY DEF StoreTurn, Goto, locals, TypeOK
<1>2. PICK shape \in TurnShapes : items' = items \o TurnItems(r, shape)
  BY DEF StoreTurn
<1> DEFINE t == items \o TurnItems(r, shape)
<1>3. /\ Markers(t) = Markers(items)
      /\ MessagePositions(items) \subseteq MessagePositions(t)
      /\ \A i \in DOMAIN items : t[i] = items[i]
      /\ \A i \in MessagePositions(t) \ MessagePositions(items) :
           t[i].about = {<<r, i - Len(items)>>} /\ i \in Nat
      /\ Len(items) \in Nat
  BY <1>1, TurnAppended
<1> HIDE DEF t
<1>4. /\ Markers(items) \subseteq DOMAIN items
      /\ MessagePositions(items) \subseteq DOMAIN items
  BY DEF Markers, MessagePositions
<1>5. SectionIsLocked'
  BY <1>1 DEF OneWorkerInv, SectionIsLocked, InSection
<1>6. \A i \in MessagePositions(items) : \A x \in items[i].about :
        x[1] \in Requests /\ pc[x[1]] = "done" /\ pc'[x[1]] = "done" /\ x[1] # r
  BY <1>1 DEF OneWorkerInv, MessagesAreDistinct
<1>7. MessagesAreDistinct'
  <2>1. ASSUME NEW i \in MessagePositions(t), NEW x \in t[i].about
        PROVE  x[1] \in Requests /\ pc'[x[1]] = "done"
    <3>1. CASE i \in MessagePositions(items)
      BY <1>3, <1>4, <1>6, <2>1, <3>1
    <3>2. CASE i \notin MessagePositions(items)
      <4>1. x = <<r, i - Len(items)>>
        BY <1>3, <2>1, <3>2
      <4>2. QED
        BY <1>1, <4>1
    <3>3. QED
      BY <3>1, <3>2
  <2>2. ASSUME NEW i \in MessagePositions(t), NEW j \in MessagePositions(t),
               i # j, NEW x \in t[i].about, x \in t[j].about
        PROVE  FALSE
    <3>1. CASE i \in MessagePositions(items) /\ j \in MessagePositions(items)
      BY <1>3, <1>4, <2>2, <3>1 DEF OneWorkerInv, MessagesAreDistinct
    <3>2. CASE i \in MessagePositions(items) /\ j \notin MessagePositions(items)
      <4>1. x[1] # r
        BY <1>3, <1>4, <1>6, <2>2, <3>2
      <4>2. x = <<r, j - Len(items)>>
        BY <1>3, <2>2, <3>2
      <4>3. QED
        BY <4>1, <4>2
    <3>3. CASE i \notin MessagePositions(items) /\ j \in MessagePositions(items)
      <4>1. x[1] # r
        BY <1>3, <1>4, <1>6, <2>2, <3>3
      <4>2. x = <<r, i - Len(items)>>
        BY <1>3, <2>2, <3>3
      <4>3. QED
        BY <4>1, <4>2
    <3>4. CASE i \notin MessagePositions(items) /\ j \notin MessagePositions(items)
      <4>1. x = <<r, i - Len(items)>> /\ x = <<r, j - Len(items)>>
        BY <1>3, <2>2, <3>4
      <4>2. i - Len(items) = j - Len(items)
        BY <4>1
      <4>3. QED
        BY <1>3, <2>2, <3>4, <4>2
    <3>5. QED
      BY <3>1, <3>2, <3>3, <3>4
  <2>3. QED
    BY <1>2, <2>1, <2>2 DEF MessagesAreDistinct, t
<1>8. MarkersInOrder(t)
  BY <1>3, <1>4 DEF OneWorkerInv, MarkersInOrder
<1>9. MarkersTellNext(t)
  <2> SUFFICES ASSUME NEW a \in Markers(items), NEW x \in items[a].about
               PROVE  \E i \in MessagePositions(t) :
                        /\ x \in t[i].about /\ i <= items[a].covers
                        /\ \A k \in Markers(items) : k < a => items[k].covers < i
    BY <1>3, <1>4 DEF MarkersTellNext
  <2>1. PICK i \in MessagePositions(items) :
          /\ x \in items[i].about /\ i <= items[a].covers
          /\ \A k \in Markers(items) : k < a => items[k].covers < i
    BY DEF OneWorkerInv, MarkersTellNext
  <2>2. QED
    BY <1>3, <1>4, <2>1
<1>10. ASSUME NEW q \in Requests, pc'[q] \in {"summarize", "mark"}
       PROVE  ChunkIsNext(q)'
  <2>1. ChunkIsNext(q) /\ chunk' = chunk
    BY <1>1, <1>10 DEF OneWorkerInv
  <2>2. \A k \in Markers(items) : t[k] = items[k]
    BY <1>3, <1>4
  <2>3. \A k \in Markers(t) : t[k].covers <= chunk[q].covers
    BY <1>3, <2>1, <2>2 DEF ChunkIsNext
  <2>4. ASSUME NEW x \in chunk[q].about
        PROVE  \E i \in MessagePositions(t) :
                 /\ x \in t[i].about /\ i <= chunk[q].covers
                 /\ \A k \in Markers(t) : t[k].covers < i
    <3>1. PICK i \in MessagePositions(items) :
            /\ x \in items[i].about /\ i <= chunk[q].covers
            /\ \A k \in Markers(items) : items[k].covers < i
      BY <2>1, <2>4 DEF ChunkIsNext
    <3>2. QED
      BY <1>3, <1>4, <2>2, <3>1
  <2>5. QED
    BY <1>2, <2>1, <2>3, <2>4 DEF ChunkIsNext, t
<1>11. QED
  BY <1>2, <1>5, <1>7, <1>8, <1>9, <1>10 DEF OneWorkerInv, t

LEMMA OneWorkerInvStep ==
  ASSUME OneRegistry, TypeOK, OneWorkerInv, [Next]_vars
  PROVE  OneWorkerInv'
<1>1. CASE UNCHANGED vars
  BY <1>1 DEF vars, locals, OneWorkerInv, SectionIsLocked, InSection,
     MessagesAreDistinct, ChunkIsNext
<1>2. ASSUME NEW r \in Requests, Arrive(r) \/ Probe(r) \/ Infer(r)
      PROVE  OneWorkerInv'
  <2>1. /\ pc'[r] \in {"probe", "lock", "infer", "answered"} /\ pc[r] # "done"
        /\ \A q \in Requests \ {r} : pc'[q] = pc[q]
        /\ UNCHANGED <<items, chunk, holder>>
    BY <1>2 DEF Arrive, Probe, Infer, Goto, locals, TypeOK
  <2>2. \A q \in Requests : InSection(q) => holder'[WorkerOf[q]] = q
    BY <2>1 DEF OneWorkerInv, SectionIsLocked
  <2>3. ~ InSection(r)'
    BY <2>1 DEF InSection
  <2>4. QED
    BY <2>1, <2>2, <2>3, OneWorkerFrame
<1>3. ASSUME NEW r \in Requests, Acquire(r) PROVE OneWorkerInv'
  <2>1. /\ pc'[r] = "fetch" /\ pc[r] = "lock" /\ holder[WorkerOf[r]] = NoRequest
        /\ \A q \in Requests \ {r} : pc'[q] = pc[q]
        /\ UNCHANGED <<items, chunk>>
    BY <1>3 DEF Acquire, Goto, locals, TypeOK
  <2>2. /\ holder'[WorkerOf[r]] = r
        /\ \A q \in Requests : WorkerOf[q] # WorkerOf[r] =>
             holder'[WorkerOf[q]] = holder[WorkerOf[q]]
    BY <1>3, ConstantsAssumption DEF Acquire, TypeOK
  <2>3. ASSUME NEW q \in Requests \ {r}, InSection(q)
        PROVE  holder'[WorkerOf[q]] = q
    <3>1. holder[WorkerOf[q]] = q /\ q # NoRequest
      BY <2>3, ConstantsAssumption DEF OneWorkerInv, SectionIsLocked
    <3>2. QED
      BY <2>1, <2>2, <3>1
  <2>4. QED
    BY <2>1, <2>2, <2>3, OneWorkerFrame
<1>4. ASSUME NEW r \in Requests, Evaluate(r) PROVE OneWorkerInv'
  <2>1. items' = items /\ InSection(r) /\ pc[r] = "fetch"
    BY <1>4 DEF Evaluate, InSection
  <2> DEFINE rec == ItemsAfterLastMarker(items)
  <2>2. \E rs, ss :
          \/ FoldOrConclude(r, items, ss, rs, rec)
          \/ \E split \in SplitPoints(items, rec) :
               StartSummary(r, ss, rs, rec, split)
    BY <1>4 DEF Evaluate
  <2>3. ASSUME NEW rs, NEW ss, FoldOrConclude(r, items, ss, rs, rec)
        PROVE  OneWorkerInv'
    BY <2>1, <2>3, FoldOrConcludeKeepsOneWorker
  <2>4. ASSUME NEW rs, NEW ss, NEW split \in SplitPoints(items, rec),
               StartSummary(r, ss, rs, rec, split)
        PROVE  OneWorkerInv'
    <3>1. /\ pc'[r] = "summarize" /\ holder' = holder /\ Old(rec, split) # {}
          /\ chunk'[r].about = About(items, Old(rec, split))
          /\ chunk'[r].covers = CoveredItemCount(split)
          /\ \A q \in Requests \ {r} : pc'[q] = pc[q] /\ chunk'[q] = chunk[q]
      BY <2>4 DEF StartSummary, Goto, TypeOK, LocalsOK
    <3>2. ChunkIsNext(r)'
      BY <2>1, <3>1, SplitIsNext DEF OneWorkerInv
    <3>3. \A q \in Requests : InSection(q) => holder'[WorkerOf[q]] = q
      BY <3>1 DEF OneWorkerInv, SectionIsLocked
    <3>4. QED
      BY <2>1, <3>1, <3>2, <3>3, OneWorkerFrame
  <2>5. QED
    BY <2>2, <2>3, <2>4
<1>5. ASSUME NEW r \in Requests, Summarize(r) PROVE OneWorkerInv'
  <2>1. /\ pc'[r] = "mark" /\ pc[r] = "summarize"
        /\ \A q \in Requests \ {r} : pc'[q] = pc[q]
        /\ UNCHANGED <<items, chunk, holder>>
    BY <1>5 DEF Summarize, Goto, locals, TypeOK
  <2>2. ChunkIsNext(r)'
    BY <2>1 DEF OneWorkerInv, ChunkIsNext
  <2>3. \A q \in Requests : InSection(q) => holder'[WorkerOf[q]] = q
    BY <2>1 DEF OneWorkerInv, SectionIsLocked
  <2>4. InSection(r)
    BY <2>1 DEF InSection
  <2>5. QED
    BY <2>1, <2>2, <2>3, <2>4, OneWorkerFrame
<1>6. ASSUME NEW r \in Requests, WriteMarker(r) PROVE OneWorkerInv'
  BY <1>6, WriteMarkerKeepsOneWorker
<1>7. ASSUME NEW r \in Requests, RecordChunk(r) PROVE OneWorkerInv'
  <2>1. items' = items /\ InSection(r)
    BY <1>7 DEF RecordChunk, InSection
  <2>2. \E ss, rs : FoldOrConclude(r, snap[r], ss, rs, recent[r])
    BY <1>7 DEF RecordChunk
  <2>3. QED
    BY <2>1, <2>2, FoldOrConcludeKeepsOneWorker
<1>8. ASSUME NEW r \in Requests, Fold(r) \/ InsertFold(r) PROVE OneWorkerInv'
  <2>1. items' = items /\ InSection(r)
    BY <1>8 DEF Fold, InsertFold, InSection
  <2>2. CASE Fold(r) /\ DeleteRows(r)
    <3>1. /\ pc[r] = "fold" /\ pc'[r] = "replace" /\ UNCHANGED <<chunk, holder>>
          /\ \A q \in Requests \ {r} : pc'[q] = pc[q]
      BY <2>2 DEF Fold, DeleteRows, Goto, locals, TypeOK
    <3>2. \A q \in Requests : InSection(q) => holder'[WorkerOf[q]] = q
      BY <3>1 DEF OneWorkerInv, SectionIsLocked
    <3>3. QED
      BY <2>1, <3>1, <3>2, OneWorkerFrame
  <2>3. CASE \E ss : Conclude(r, snap[r], ss, recent[r])
    BY <2>1, <2>3, ConcludeKeepsOneWorker
  <2>4. QED
    BY <1>8, <2>2, <2>3 DEF Fold, InsertFold, GoOnUnfolded
<1>9. ASSUME NEW r \in Requests, StoreTurn(r) PROVE OneWorkerInv'
  BY <1>9, StoreTurnKeepsOneWorker
<1>10. ASSUME NEW r \in Requests, Abort(r) PROVE OneWorkerInv'
  <2>1. /\ items' = items /\ pc[r] \in Points /\ pc'[r] = "failed"
        /\ \A q \in Requests \ {r} : pc'[q] = pc[q] /\ chunk'[q] = chunk[q]
    BY <1>10, ConstantsAssumption DEF Abort, DropLocals, Goto, TypeOK, LocalsOK
  <2>2. \A q \in Requests \ {r} : InSection(q) => holder'[WorkerOf[q]] = q
    <3>1. CASE holder[WorkerOf[r]] = r
      BY <1>10, <3>1, ReleaseIsOwn DEF Abort, OneWorkerInv
    <3>2. CASE holder[WorkerOf[r]] # r
      BY <1>10, <3>2 DEF Abort, OneWorkerInv, SectionIsLocked
    <3>3. QED
      BY <3>1, <3>2
  <2>3. ~ InSection(r)' /\ pc[r] # "done"
    BY <2>1 DEF InSection, Points
  <2>4. QED
    BY <2>1, <2>2, <2>3, OneWorkerFrame
<1>11. QED
  BY <1>1, <1>2, <1>3, <1>4, <1>5, <1>6, <1>7, <1>8, <1>9, <1>10 DEF Next

LEMMA InitOneWorker == Init => OneWorkerInv
<1> SUFFICES ASSUME Init PROVE OneWorkerInv
  OBVIOUS
<1>1. items = <<>> /\ DOMAIN items = {} /\ \A r \in Requests : pc[r] = "idle"
  BY DEF Init
<1>2. Markers(items) = {} /\ MessagePositions(items) = {}
  BY <1>1 DEF Markers, MessagePositions
<1>3. QED
  BY <1>1, <1>2 DEF OneWorkerInv, SectionIsLocked, InSection,
     MessagesAreDistinct, MarkersInOrder, MarkersTellNext

(* In one process, whatever the cache does and whatever fails, no two      *)
(* markers speak for the same message, and no message is both in a marker  *)
(* and replayed verbatim.                                                  *)
THEOREM NothingIsToldTwice ==
  ASSUME OneRegistry
  PROVE  Spec => []NothingTwice
<1>1. ASSUME TypeOK, OneWorkerInv PROVE NothingTwice
  <2>1. /\ items \in Seq(Item)
        /\ Markers(items) \subseteq DOMAIN items
        /\ \A m \in Markers(items) : m \in Nat /\ items[m].covers \in Nat
        /\ \A i \in MessagePositions(items) : i \in DOMAIN items /\ i \in Nat
    BY <1>1, ItemAt DEF TypeOK, Markers, MessagePositions
  <2>2. ASSUME NEW m \in Markers(items), NEW k \in Markers(items), m < k,
               NEW x \in items[m].about, x \in items[k].about
        PROVE  FALSE
    <3>1. PICK i \in MessagePositions(items) :
            x \in items[i].about /\ i <= items[m].covers
      BY <1>1 DEF OneWorkerInv, MarkersTellNext
    <3>2. PICK j \in MessagePositions(items) :
            x \in items[j].about /\ items[m].covers < j
      BY <1>1, <2>2 DEF OneWorkerInv, MarkersTellNext
    <3>3. i = j
      BY <1>1, <3>1, <3>2 DEF OneWorkerInv, MessagesAreDistinct
    <3>4. QED
      BY <2>1, <3>1, <3>2, <3>3
  <2>3. ASSUME NEW i \in ItemsAfterLastMarker(items), NEW m \in Markers(items),
               NEW x \in items[i].about, x \in items[m].about
        PROVE  FALSE
    <3>1. i \in MessagePositions(items)
      BY <2>1, <2>3, TurnsAreMessages DEF ItemsAfterLastMarker
    <3>2. PICK j \in MessagePositions(items) :
            x \in items[j].about /\ j <= items[m].covers
      BY <1>1, <2>3 DEF OneWorkerInv, MarkersTellNext
    <3>3. i = j
      BY <1>1, <2>3, <3>1, <3>2 DEF OneWorkerInv, MessagesAreDistinct
    <3>4. items[m].covers < i
      BY <1>1, <2>1, <2>3, <3>1, BehindAnyMarker DEF OneWorkerInv
    <3>5. QED
      BY <2>1, <3>1, <3>2, <3>3, <3>4
  <2>4. \A m, k \in Markers(items) :
          m # k => items[m].about \cap items[k].about = {}
    <3>1. \A m, k \in Markers(items) : m # k => m < k \/ k < m
      BY <2>1
    <3>2. QED
      BY <2>2, <3>1
  <2>5. About(items, ItemsAfterLastMarker(items))
          \cap About(items, Markers(items)) = {}
    BY <2>3 DEF About
  <2>6. QED
    BY <2>4, <2>5 DEF NothingTwice
<1>2. Init => OneWorkerInv
  BY InitOneWorker
<1>3. TypeOK /\ OneWorkerInv /\ [Next]_vars => OneWorkerInv'
  BY OneWorkerInvStep
<1>4. QED
  BY <1>1, <1>2, <1>3, TypeCorrect, PTL DEF Spec

(* The list of items only grows.                                           *)
LEMMA ItemsOnlyGrow ==
  ASSUME TypeOK, [Next]_vars
  PROVE  Prefix(items, items')
<1>1. items \in Seq(Item) /\ Prefix(items, items)
  BY LenProperties DEF TypeOK, Prefix
<1>2. CASE items' = items
  BY <1>1, <1>2
<1>3. ASSUME NEW r \in Requests, WriteMarker(r) PROVE Prefix(items, items')
  <2>1. MarkerItem(chunk[r]) \in Item /\ MarkerItem(chunk[r]).kind = "marker"
    BY DEF TypeOK, LocalsOK, MarkerItem, Item
  <2>2. QED
    BY <1>1, <1>3, <2>1, MarkerAppended DEF WriteMarker
<1>4. ASSUME NEW r \in Requests, StoreTurn(r) PROVE Prefix(items, items')
  BY <1>1, <1>4, TurnAppended DEF StoreTurn
<1>5. items' = items \/ \E r \in Requests : WriteMarker(r) \/ StoreTurn(r)
  BY DEF Next, vars, Arrive, Probe, Acquire, Evaluate, Summarize, RecordChunk,
     Fold, InsertFold, Infer, Abort
<1>6. QED
  BY <1>2, <1>3, <1>4, <1>5

(* In one process, a message that was summarized is never again replayed   *)
(* verbatim: the newest marker counts at least as much as those before it, *)
(* although requests fetch the items long before they write their marker.  *)
THEOREM BoundaryStays ==
  ASSUME OneRegistry
  PROVE  Spec => BoundaryNeverMovesBack
<1> DEFINE Stays == \A i \in DOMAIN items :
                      i \notin ItemsAfterLastMarker(items) =>
                        i \notin ItemsAfterLastMarker(items)'
<1>1. ASSUME TypeOK, TypeOK', OneWorkerInv', [Next]_vars PROVE Stays
  <2> SUFFICES ASSUME NEW i \in DOMAIN items,
                      i \notin ItemsAfterLastMarker(items)
               PROVE  i \notin ItemsAfterLastMarker(items')
    BY DEF Stays
  <2>1. /\ items \in Seq(Item) /\ items' \in Seq(Item) /\ Prefix(items, items')
        /\ MarkersInOrder(items')
    BY <1>1, ItemsOnlyGrow DEF TypeOK, OneWorkerInv
  <2>2. i \in DOMAIN items' /\ Markers(items) \subseteq Markers(items')
    BY <2>1, PrefixMonotone
  <2>3. CASE i \in Markers(items)
    BY <2>2, <2>3 DEF ItemsAfterLastMarker
  <2>4. CASE i \notin Markers(items)
    <3>1. PICK m \in Markers(items) : ~ (i > items[m].covers)
      BY <2>4 DEF ItemsAfterLastMarker
    <3>2. i \in Nat /\ items[m].covers \in Nat /\ items'[m] = items[m]
      BY <2>1, ItemAt DEF Markers, Prefix
    <3>3. i <= items'[m].covers /\ m \in Markers(items')
      BY <2>2, <3>1, <3>2
    <3>4. QED
      BY <2>1, <2>2, <3>3, BehindAnyMarker
  <2>5. QED
    BY <2>3, <2>4
<1>2. Init => OneWorkerInv
  BY InitOneWorker
<1>3. TypeOK /\ OneWorkerInv /\ [Next]_vars => OneWorkerInv'
  BY OneWorkerInvStep
<1> HIDE DEF Stays
<1>4. Spec => [][Stays]_items
  BY <1>1, <1>2, <1>3, TypeCorrect, PTL DEF Spec
<1>5. QED
  BY <1>4 DEF BoundaryNeverMovesBack, Stays

-----------------------------------------------------------------------------
(* A reliable cache tells what the markers tell.                           *)

LEMMA ToldOfAppend ==
  ASSUME NEW rs \in Seq(SUBSET Messages), NEW x \in SUBSET Messages
  PROVE  Told(Append(rs, x)) = Told(rs) \cup x
<1> DEFINE t == Append(rs, x)
<1>1. /\ DOMAIN t = 1 .. Len(rs) + 1 /\ DOMAIN rs = 1 .. Len(rs)
      /\ Len(rs) \in Nat /\ t[Len(rs) + 1] = x
      /\ \A i \in 1 .. Len(rs) : t[i] = rs[i]
  BY AppendProperties, LenProperties
<1> HIDE DEF t
<1>2. SummarySet(t) = SummarySet(rs) \cup {x}
  BY <1>1 DEF SummarySet
<1>3. QED
  BY <1>2 DEF Told, t

LEMMA ToldOfFew ==
  ASSUME NEW x
  PROVE  Told(<<>>) = {} /\ Told(<<x>>) = x
BY DEF Told, SummarySet

(* A step that leaves the rows and the markers alone concerns one request. *)
LEMMA CacheFrame ==
  ASSUME CacheInv, cached' = cached, Marked' = Marked, NEW r \in Requests,
         pc[r] \notin BehindMarkers, pc'[r] \notin BehindMarkers,
         \A q \in Requests \ {r} :
           /\ pc'[q] = pc[q] /\ sums'[q] = sums[q]
           /\ rows'[q] = rows[q] /\ chunk'[q] = chunk[q],
         LocalRowsFollow(r)'
  PROVE  CacheInv'
<1>1. RowsFollowMarkers'
  BY DEF CacheInv, RowsFollowMarkers, BehindMarkers
<1>2. ASSUME NEW q \in Requests PROVE LocalRowsFollow(q)'
  <2>1. CASE q = r
    BY <2>1
  <2>2. CASE q # r
    BY <2>2 DEF CacheInv, LocalRowsFollow
  <2>3. QED
    BY <2>1, <2>2
<1>3. QED
  BY <1>1, <1>2 DEF CacheInv

(* The end of the section holds nothing; a fold holds what it was given.   *)
LEMMA HeldAfterSection ==
  ASSUME TypeOK, NEW r \in Requests, NEW s, NEW ss, NEW rs, NEW rec,
         FoldOrConclude(r, s, ss, rs, rec),
         UNION ss = Marked', Len(rs) >= 2 => Told(rs) = Marked'
  PROVE  /\ pc'[r] \in {"infer", "answered", "fold"}
         /\ LocalRowsFollow(r)'
         /\ \A q \in Requests \ {r} :
              /\ pc'[q] = pc[q] /\ sums'[q] = sums[q]
              /\ rows'[q] = rows[q] /\ chunk'[q] = chunk[q]
<1>1. CASE StartFold(r, s, ss, rs, rec)
  <2>1. /\ pc'[r] = "fold" /\ sums'[r] = ss /\ rows'[r] = rs
        /\ \A q \in Requests \ {r} :
             /\ pc'[q] = pc[q] /\ sums'[q] = sums[q]
             /\ rows'[q] = rows[q] /\ chunk'[q] = chunk[q]
    BY <1>1 DEF StartFold, Goto, TypeOK, LocalsOK
  <2>2. Len(rs) >= 2
    BY <1>1 DEF StartFold
  <2>3. QED
    BY <2>1, <2>2 DEF LocalRowsFollow
<1>2. CASE Conclude(r, s, ss, rec)
  <2>1. /\ pc'[r] \in {"infer", "answered"}
        /\ \A q \in Requests \ {r} :
             /\ pc'[q] = pc[q] /\ sums'[q] = sums[q]
             /\ rows'[q] = rows[q] /\ chunk'[q] = chunk[q]
    BY <1>2 DEF Conclude, DropLocals, Goto, TypeOK, LocalsOK
  <2>2. QED
    BY <2>1 DEF LocalRowsFollow
<1>3. QED
  BY <1>1, <1>2 DEF FoldOrConclude

(* Nobody else is writing rows while one is in the section.                *)
LEMMA RowsAreCurrent ==
  ASSUME ReliableCache, OneWorkerInv, CacheInv, NEW r \in Requests,
         InSection(r), pc[r] \notin BehindMarkers
  PROVE  Told(cached[UserOf[r]]) = Marked
<1>1. \A q \in Requests : pc[q] \notin BehindMarkers
  BY OneInSection DEF ReliableCache, OneWorkerInv, InSection, BehindMarkers
<1>2. QED
  BY <1>1 DEF CacheInv, RowsFollowMarkers

(* Hence requests read, and fold, what the markers tell.                   *)
LEMMA CacheReadsFaithfully ==
  ASSUME ReliableCache, OneWorkerInv, CacheInv
  PROVE  \A r \in Requests : ReadsFaithfully(r)
<1> SUFFICES ASSUME NEW r \in Requests PROVE ReadsFaithfully(r)
  OBVIOUS
<1>1. ASSUME pc[r] = "fetch", NEW rs \in CacheReads(r), rs # <<>>
      PROVE  UNION SummarySet(rs) = About(items, Markers(items))
  <2>1. rs = cached[UserOf[r]]
    BY <1>1 DEF CacheReads
  <2>2. Told(cached[UserOf[r]]) = Marked
    BY <1>1, RowsAreCurrent DEF InSection, BehindMarkers
  <2>3. QED
    BY <2>1, <2>2 DEF Told, Marked
<1>2. pc[r] \in {"fold", "replace"} => UNION SummarySet(rows[r]) = UNION sums[r]
  BY DEF CacheInv, LocalRowsFollow, Told
<1>3. QED
  BY <1>1, <1>2 DEF ReadsFaithfully

(* The step from a marker to its row.                                      *)
LEMMA RecordKeepsCache ==
  ASSUME ReliableCache, TypeOK, OneWorkerInv, CacheInv, NEW r \in Requests,
         RecordChunk(r)
  PROVE  CacheInv'
<1> DEFINE ss == sums[r] \cup {chunk[r].about}
           rs == Append(rows[r], chunk[r].about)
           u == UserOf[r]
<1>1. /\ pc[r] = "record" /\ items' = items
      /\ cached' = [cached EXCEPT ![u] = Append(@, chunk[r].about)]
      /\ FoldOrConclude(r, snap[r], ss, rs, recent[r])
  BY DEF RecordChunk, ReliableCache
<1>2. /\ u \in Users /\ \A q \in Requests : UserOf[q] = u
      /\ cached[u] \in Seq(SUBSET Messages) /\ rows[r] \in Seq(SUBSET Messages)
      /\ chunk[r].about \in SUBSET Messages
  BY ConstantsAssumption DEF ReliableCache, TypeOK, LocalsOK
<1>3. Marked' = Marked
  BY <1>1 DEF Marked
<1>4. UNION ss = Marked
  BY <1>1 DEF CacheInv, LocalRowsFollow
<1>5. Told(rs) = Told(rows[r]) \cup chunk[r].about
  BY <1>2, ToldOfAppend
<1>6. /\ cached'[u] = Append(cached[u], chunk[r].about)
      /\ \A v \in Users \ {u} : cached'[v] = cached[v]
  BY <1>1, <1>2 DEF TypeOK
<1>7. Told(cached'[u]) = Marked
  <2>1. Told(cached[u]) \cup chunk[r].about = Marked
    BY <1>1 DEF CacheInv, RowsFollowMarkers
  <2>2. Told(Append(cached[u], chunk[r].about)) = Told(cached[u]) \cup chunk[r].about
    BY <1>2, ToldOfAppend
  <2>3. QED
    BY <1>6, <2>1, <2>2
<1>8. Len(rs) >= 2 => Told(rs) = Marked
  <2>1. Len(rs) >= 2 => rows[r] # <<>>
    BY <1>2, AppendProperties, EmptySeq
  <2>2. rows[r] # <<>> => Told(rows[r]) \cup chunk[r].about = Marked
    BY <1>1 DEF CacheInv, LocalRowsFollow
  <2>3. QED
    BY <1>5, <2>1, <2>2
<1> HIDE DEF ss, rs
<1>9. /\ pc'[r] \in {"infer", "answered", "fold"} /\ LocalRowsFollow(r)'
      /\ \A q \in Requests \ {r} :
           /\ pc'[q] = pc[q] /\ sums'[q] = sums[q]
           /\ rows'[q] = rows[q] /\ chunk'[q] = chunk[q]
  BY <1>1, <1>3, <1>4, <1>8, HeldAfterSection
<1> HIDE DEF u
<1>10. \A q \in Requests \ {r} : ~ InSection(q)
  BY <1>1, OneInSection DEF ReliableCache, OneWorkerInv, InSection
<1>11. RowsFollowMarkers'
  <2>1. \A q \in Requests : pc'[q] \notin BehindMarkers
    BY <1>9, <1>10 DEF InSection, BehindMarkers
  <2>2. \A q \in Requests : Told(cached'[UserOf[q]]) = Marked'
    BY <1>2, <1>3, <1>7
  <2>3. ASSUME NEW v \in Users, \A q \in Requests : UserOf[q] # v
        PROVE  cached'[v] = <<>>
    BY <1>2, <1>6, <2>3 DEF CacheInv, RowsFollowMarkers
  <2>4. QED
    BY <2>1, <2>2, <2>3 DEF RowsFollowMarkers, BehindMarkers
<1>12. \A q \in Requests : LocalRowsFollow(q)'
  BY <1>9, <1>10 DEF LocalRowsFollow, InSection
<1>13. QED
  BY <1>11, <1>12 DEF CacheInv

(* The rows of a fold are gone until it is inserted; the request still     *)
(* holds what they told.                                                   *)
LEMMA FoldKeepsCache ==
  ASSUME ReliableCache, TypeOK, OneWorkerInv, CacheInv, NEW r \in Requests,
         Fold(r)
  PROVE  CacheInv'
<1> DEFINE u == UserOf[r]
<1>1. pc[r] = "fold" /\ items' = items /\ InSection(r) /\ Marked' = Marked
  BY DEF Fold, InSection, Marked
<1>2. u \in Users /\ \A q \in Requests : UserOf[q] = u
  BY ConstantsAssumption DEF ReliableCache
<1>3. CASE DeleteRows(r)
  <2>1. /\ pc'[r] = "replace" /\ UNCHANGED <<sums, rows, chunk>>
        /\ \A q \in Requests \ {r} : pc'[q] = pc[q]
        /\ cached'[u] = <<>> /\ \A v \in Users \ {u} : cached'[v] = cached[v]
    BY <1>2, <1>3 DEF DeleteRows, Goto, locals, TypeOK
  <2>2. \A q \in Requests \ {r} : ~ InSection(q)
    BY <1>1, OneInSection DEF ReliableCache, OneWorkerInv
  <2>3. RowsFollowMarkers'
    <3>1. \A q \in Requests : pc'[q] # "record"
      BY <2>1, <2>2 DEF InSection
    <3>2. \A q \in Requests : cached'[UserOf[q]] = <<>>
      BY <1>2, <2>1
    <3>3. pc'[r] \in BehindMarkers
      BY <2>1 DEF BehindMarkers
    <3>4. ASSUME NEW v \in Users, \A q \in Requests : UserOf[q] # v
          PROVE  cached'[v] = <<>>
      BY <1>2, <2>1, <3>4 DEF CacheInv, RowsFollowMarkers
    <3>5. QED
      BY <3>1, <3>2, <3>3, <3>4 DEF RowsFollowMarkers
  <2>4. \A q \in Requests : LocalRowsFollow(q)'
    BY <1>1, <2>1, <2>2 DEF CacheInv, LocalRowsFollow, InSection
  <2>5. QED
    BY <2>3, <2>4 DEF CacheInv
<1>4. CASE GoOnUnfolded(r, "delete")
  <2>1. /\ pc'[r] \in {"infer", "answered"} /\ cached' = cached
        /\ \A q \in Requests \ {r} :
             /\ pc'[q] = pc[q] /\ sums'[q] = sums[q]
             /\ rows'[q] = rows[q] /\ chunk'[q] = chunk[q]
    BY <1>4 DEF GoOnUnfolded, Conclude, DropLocals, Goto, TypeOK, LocalsOK
  <2>2. LocalRowsFollow(r)'
    BY <2>1 DEF LocalRowsFollow
  <2>3. QED
    BY <1>1, <2>1, <2>2, CacheFrame DEF BehindMarkers
<1>5. QED
  BY <1>3, <1>4 DEF Fold

(* The fold, once inserted, tells what the rows told that it replaces.     *)
LEMMA InsertFoldKeepsCache ==
  ASSUME ReliableCache, TypeOK, OneWorkerInv, CacheInv, NEW r \in Requests,
         InsertFold(r)
  PROVE  CacheInv'
<1> DEFINE u == UserOf[r]
           folded == UNION SummarySet(rows[r])
<1>1. /\ pc[r] = "replace" /\ items' = items /\ InSection(r)
      /\ cached' = [cached EXCEPT ![u] = Append(cached[u], folded)]
      /\ Conclude(r, snap[r], {folded}, recent[r])
  BY DEF InsertFold, GoOnUnfolded, ReliableCache, InSection
<1>2. u \in Users /\ \A q \in Requests : UserOf[q] = u
  BY ConstantsAssumption DEF ReliableCache
<1>3. Marked' = Marked
  BY <1>1 DEF Marked
<1>4. folded = Marked /\ cached[u] = <<>>
  BY <1>1 DEF CacheInv, RowsFollowMarkers, LocalRowsFollow, Told
<1> HIDE DEF folded
<1>5. /\ pc'[r] \in {"infer", "answered"}
      /\ \A q \in Requests \ {r} :
           /\ pc'[q] = pc[q] /\ sums'[q] = sums[q]
           /\ rows'[q] = rows[q] /\ chunk'[q] = chunk[q]
  BY <1>1 DEF Conclude, DropLocals, Goto, TypeOK, LocalsOK
<1>6. \A q \in Requests \ {r} : ~ InSection(q)
  BY <1>1, OneInSection DEF ReliableCache, OneWorkerInv
<1>7. /\ cached'[u] = <<folded>>
      /\ \A v \in Users \ {u} : cached'[v] = cached[v]
  <2>1. Append(cached[u], folded) = <<folded>>
    BY <1>4
  <2>2. QED
    BY <1>1, <1>2, <2>1 DEF TypeOK
<1>8. Told(cached'[u]) = Marked
  BY <1>4, <1>7, ToldOfFew
<1> HIDE DEF u
<1>9. RowsFollowMarkers'
  <2>1. \A q \in Requests : pc'[q] \notin BehindMarkers
    BY <1>5, <1>6 DEF InSection, BehindMarkers
  <2>2. \A q \in Requests : Told(cached'[UserOf[q]]) = Marked'
    BY <1>2, <1>3, <1>8
  <2>3. ASSUME NEW v \in Users, \A q \in Requests : UserOf[q] # v
        PROVE  cached'[v] = <<>>
    BY <1>2, <1>7, <2>3 DEF CacheInv, RowsFollowMarkers
  <2>4. QED
    BY <2>1, <2>2, <2>3 DEF RowsFollowMarkers, BehindMarkers
<1>10. \A q \in Requests : LocalRowsFollow(q)'
  BY <1>5, <1>6 DEF LocalRowsFollow, InSection
<1>11. QED
  BY <1>9, <1>10 DEF CacheInv

(* The marker is ahead of its row until the row is written.                *)
LEMMA WriteMarkerKeepsCache ==
  ASSUME ReliableCache, TypeOK, OneWorkerInv, CacheInv, NEW r \in Requests,
         WriteMarker(r)
  PROVE  CacheInv'
<1>1. /\ pc[r] = "mark" /\ pc'[r] = "record" /\ InSection(r)
      /\ items' = Append(items, MarkerItem(chunk[r]))
      /\ \A q \in Requests \ {r} : pc'[q] = pc[q]
      /\ UNCHANGED <<cached, sums, rows, chunk>>
  BY DEF WriteMarker, Goto, locals, TypeOK, InSection
<1>2. /\ MarkerItem(chunk[r]) \in Item /\ MarkerItem(chunk[r]).kind = "marker"
      /\ MarkerItem(chunk[r]).about = chunk[r].about /\ items \in Seq(Item)
  BY DEF MarkerItem, Item, TypeOK, LocalsOK
<1>3. Marked' = Marked \cup chunk[r].about
  <2>1. /\ Markers(items') = Markers(items) \cup {Len(items) + 1}
        /\ \A i \in Markers(items) : items'[i] = items[i]
        /\ items'[Len(items) + 1].about = chunk[r].about
    BY <1>1, <1>2, MarkerAppended DEF Markers
  <2>2. QED
    BY <2>1 DEF Marked, About
<1>4. \A q \in Requests \ {r} : ~ InSection(q)
  BY <1>1, OneInSection DEF ReliableCache, OneWorkerInv
<1>5. RowsFollowMarkers'
  <2>1. Told(cached[UserOf[r]]) = Marked
    BY <1>1, RowsAreCurrent DEF BehindMarkers
  <2>2. \A q \in Requests \ {r} : pc'[q] \notin BehindMarkers
    BY <1>1, <1>4 DEF InSection, BehindMarkers
  <2>3. QED
    BY <1>1, <1>3, <2>1, <2>2 DEF CacheInv, RowsFollowMarkers, BehindMarkers
<1>6. ASSUME NEW q \in Requests PROVE LocalRowsFollow(q)'
  <2>1. CASE q = r
    BY <1>1, <1>3, <2>1 DEF CacheInv, LocalRowsFollow
  <2>2. CASE q # r
    BY <1>1, <1>4, <2>2 DEF LocalRowsFollow, InSection
  <2>3. QED
    BY <2>1, <2>2
<1>7. QED
  BY <1>5, <1>6 DEF CacheInv

(* What a request reads speaks for what the markers speak for.             *)
LEMMA EvaluateKeepsCache ==
  ASSUME ReliableCache, TypeOK, OneWorkerInv, CacheInv, NEW r \in Requests,
         Evaluate(r)
  PROVE  CacheInv'
<1> DEFINE rec == ItemsAfterLastMarker(items)
<1>1. /\ pc[r] = "fetch" /\ InSection(r) /\ UNCHANGED <<items, cached>>
      /\ Marked' = Marked
  BY DEF Evaluate, InSection, Marked
<1>2. PICK rs \in CacheReads(r) :
        LET ss == IF rs # <<>> THEN SummarySet(rs) ELSE MarkerSummaries(items)
        IN  \/ FoldOrConclude(r, items, ss, rs, rec)
            \/ \E split \in SplitPoints(items, rec) :
                 StartSummary(r, ss, rs, rec, split)
  BY DEF Evaluate
<1> DEFINE ss == IF rs # <<>> THEN SummarySet(rs) ELSE MarkerSummaries(items)
<1>3. rs # <<>> => Told(rs) = Marked
  BY <1>1, RowsAreCurrent DEF CacheReads, BehindMarkers
<1>4. UNION ss = Marked
  BY <1>3 DEF Told, Marked, MarkerSummaries, About
<1>5. \/ FoldOrConclude(r, items, ss, rs, rec)
      \/ \E split \in SplitPoints(items, rec) : StartSummary(r, ss, rs, rec, split)
  BY <1>2
<1> HIDE DEF ss, rec
<1>6. CASE FoldOrConclude(r, items, ss, rs, rec)
  <2>1. Len(rs) >= 2 => Told(rs) = Marked'
    BY <1>1, <1>3, EmptySeq
  <2>2. /\ pc'[r] \in {"infer", "answered", "fold"} /\ LocalRowsFollow(r)'
        /\ \A q \in Requests \ {r} :
             /\ pc'[q] = pc[q] /\ sums'[q] = sums[q]
             /\ rows'[q] = rows[q] /\ chunk'[q] = chunk[q]
    BY <1>1, <1>4, <1>6, <2>1, HeldAfterSection
  <2>3. QED
    BY <1>1, <2>2, CacheFrame DEF BehindMarkers
<1>7. ASSUME NEW split, StartSummary(r, ss, rs, rec, split) PROVE CacheInv'
  <2>1. /\ pc'[r] = "summarize" /\ sums'[r] = ss /\ rows'[r] = rs
        /\ \A q \in Requests \ {r} :
             /\ pc'[q] = pc[q] /\ sums'[q] = sums[q]
             /\ rows'[q] = rows[q] /\ chunk'[q] = chunk[q]
    BY <1>7 DEF StartSummary, Goto, TypeOK, LocalsOK
  <2>2. LocalRowsFollow(r)'
    BY <1>1, <1>3, <1>4, <2>1 DEF LocalRowsFollow
  <2>3. QED
    BY <1>1, <2>1, <2>2, CacheFrame DEF BehindMarkers
<1>8. QED
  BY <1>5, <1>6, <1>7

LEMMA CacheInvStep ==
  ASSUME ReliableCache, TypeOK, OneWorkerInv, CacheInv, [Next]_vars
  PROVE  CacheInv'
<1>1. CASE UNCHANGED vars
  BY <1>1 DEF vars, locals, CacheInv, RowsFollowMarkers, BehindMarkers,
              LocalRowsFollow, Marked
<1>2. ASSUME NEW r \in Requests,
             Arrive(r) \/ Probe(r) \/ Acquire(r) \/ Summarize(r) \/ Infer(r)
      PROVE  CacheInv'
  <2>1. /\ pc[r] \notin BehindMarkers
        /\ pc'[r] \notin {"summarize", "record", "fold", "replace"}
        /\ pc'[r] = "mark" => pc[r] = "summarize"
        /\ \A q \in Requests \ {r} : pc'[q] = pc[q]
        /\ UNCHANGED <<items, cached, sums, rows, chunk>>
    BY <1>2 DEF Arrive, Probe, Acquire, Summarize, Infer, Goto, locals, TypeOK,
                BehindMarkers
  <2>2. Marked' = Marked
    BY <2>1 DEF Marked
  <2>3. LocalRowsFollow(r)'
    BY <2>1, <2>2 DEF CacheInv, LocalRowsFollow
  <2>4. QED
    BY <2>1, <2>2, <2>3, CacheFrame DEF BehindMarkers
<1>3. ASSUME NEW r \in Requests, StoreTurn(r) PROVE CacheInv'
  <2>1. /\ pc[r] = "answered" /\ pc'[r] = "done"
        /\ \A q \in Requests \ {r} : pc'[q] = pc[q]
        /\ UNCHANGED <<cached, sums, rows, chunk>>
    BY <1>3 DEF StoreTurn, Goto, locals, TypeOK
  <2>2. Marked' = Marked
    BY <1>3, TurnGrows DEF StoreTurn, TypeOK, Marked
  <2>3. LocalRowsFollow(r)'
    BY <2>1 DEF LocalRowsFollow
  <2>4. QED
    BY <2>1, <2>2, <2>3, CacheFrame DEF BehindMarkers
<1>4. ASSUME NEW r \in Requests, Abort(r) PROVE CacheInv'
  <2>1. /\ pc[r] \notin BehindMarkers /\ pc'[r] = "failed"
        /\ UNCHANGED <<items, cached>>
        /\ \A q \in Requests \ {r} :
             /\ pc'[q] = pc[q] /\ sums'[q] = sums[q]
             /\ rows'[q] = rows[q] /\ chunk'[q] = chunk[q]
    BY <1>4 DEF Abort, DropLocals, Goto, TypeOK, LocalsOK, ReliableCache,
                BehindMarkers
  <2>2. Marked' = Marked
    BY <2>1 DEF Marked
  <2>3. LocalRowsFollow(r)'
    BY <2>1 DEF LocalRowsFollow
  <2>4. QED
    BY <2>1, <2>2, <2>3, CacheFrame DEF BehindMarkers
<1>5. QED
  BY <1>1, <1>2, <1>3, <1>4, EvaluateKeepsCache, WriteMarkerKeepsCache,
     RecordKeepsCache, FoldKeepsCache, InsertFoldKeepsCache DEF Next

LEMMA InitCache == Init => CacheInv
<1> SUFFICES ASSUME Init PROVE CacheInv
  OBVIOUS
<1>1. /\ \A u \in Users : cached[u] = <<>>
      /\ \A r \in Requests : pc[r] = "idle"
      /\ Markers(items) = {}
  BY DEF Init, Markers
<1>2. \A r \in Requests : cached[UserOf[r]] = <<>>
  BY <1>1, ConstantsAssumption
<1>3. Marked = {}
  BY <1>1 DEF Marked, About
<1>4. QED
  BY <1>1, <1>2, <1>3, ToldOfFew DEF CacheInv, RowsFollowMarkers, LocalRowsFollow

(* With a cache whose inserts are reliable, in one process, for any number *)
(* of requests that race, fail while reading, deleting or folding, or end  *)
(* early: once the lock is free, the rows say what the markers say,        *)
(* whichever of the two the next request reads.  A failed insert breaks    *)
(* it: the rows of a fold are deleted in a commit of their own.            *)
THEOREM CacheFollowsMarkers ==
  ASSUME ReliableCache
  PROVE  Spec => []CacheAgreesWithMarkers
<1>1. ASSUME TypeOK, OneWorkerInv, CacheInv PROVE CacheAgreesWithMarkers
  <2> SUFFICES ASSUME Unlocked, NEW u \in Users, cached[u] # <<>>
               PROVE  UNION SummarySet(cached[u]) = About(items, Markers(items))
    BY DEF CacheAgreesWithMarkers
  <2>1. PICK r \in Requests : UserOf[r] = u
    BY <1>1 DEF CacheInv, RowsFollowMarkers
  <2>2. \A q \in Requests : pc[q] \notin BehindMarkers
    BY <1>1, ConstantsAssumption
       DEF OneWorkerInv, SectionIsLocked, InSection, Unlocked, BehindMarkers
  <2>3. Told(cached[u]) = Marked
    BY <1>1, <2>1, <2>2 DEF CacheInv, RowsFollowMarkers
  <2>4. QED
    BY <2>3 DEF Told, Marked
<1>2. Init => OneWorkerInv /\ CacheInv
  BY InitOneWorker, InitCache
<1>3. TypeOK /\ OneWorkerInv /\ CacheInv /\ [Next]_vars
        => OneWorkerInv' /\ CacheInv'
  BY OneWorkerInvStep, CacheInvStep DEF ReliableCache
<1>4. QED
  BY <1>1, <1>2, <1>3, TypeCorrect, PTL DEF Spec

(* With such a cache, too, compaction implements the conversation that     *)
(* replays its whole history: rows and folds tell the model neither less   *)
(* nor more than was stored.                                               *)
THEOREM CacheImplementsFullHistory ==
  ASSUME ReliableCache
  PROVE  Spec => ImplementsFullHistory /\ []ContextComplete
<1> DEFINE Inv == TypeOK /\ CompactionInv /\ KnowledgeInv /\ OneWorkerInv /\ CacheInv
<1>1. Init => CompactionInv /\ KnowledgeInv /\ OneWorkerInv /\ CacheInv
  BY InitKnowledge, InitOneWorker, InitCache
<1>2. Init => Abstract!Init
  BY RefinesInit
<1>3. ASSUME Inv, [Next]_vars
      PROVE  /\ CompactionInv' /\ KnowledgeInv' /\ OneWorkerInv' /\ CacheInv'
             /\ [Abstract!Next]_(Abstract!vars)
  <2>1. \A r \in Requests : ReadsFaithfully(r)
    BY <1>3, CacheReadsFaithfully
  <2>2. CompactionInv' /\ OneWorkerInv' /\ CacheInv'
    BY <1>3, CompactionInvStep, OneWorkerInvStep, CacheInvStep DEF ReliableCache
  <2>3. KnowledgeInv' /\ [Abstract!Next]_(Abstract!vars)
    BY <1>3, <2>1, KnowledgeInvStep, RefinesStep
  <2>4. QED
    BY <2>2, <2>3
<1>4. KnowledgeInv => ContextComplete
  BY DEF KnowledgeInv, KnowledgeOf, ContextComplete
<1>5. QED
  BY <1>1, <1>2, <1>3, <1>4, TypeCorrect, PTL
     DEF Spec, ImplementsFullHistory, Abstract!Spec
=============================================================================
