-------------------- MODULE ConversationCompaction_proofs --------------------
(***************************************************************************)
(* Theorems about ConversationCompaction, for every set of requests,       *)
(* workers and users, every buffer size and every failure.                 *)
(***************************************************************************)
EXTENDS ConversationCompaction, SequenceTheorems, TLAPS

-----------------------------------------------------------------------------
(* Lemmas about lists of items.                                            *)

LEMMA ItemAt ==
  ASSUME NEW s \in Seq(Item), NEW i \in DOMAIN s
  PROVE  /\ i \in 1 .. Len(s) /\ i \in Nat /\ Len(s) \in Nat
         /\ s[i] \in Item
         /\ s[i].covers \in Nat /\ s[i].about \in SUBSET Messages
<1>1. DOMAIN s = 1 .. Len(s) /\ Len(s) \in Nat
  BY LenProperties
<1>2. s[i] \in Item
  BY <1>1, ElementOfSeq
<1>3. QED
  BY <1>1, <1>2 DEF Item

(* What items speak for is a set of messages.                              *)
LEMMA AboutType ==
  ASSUME NEW s \in Seq(Item), NEW P, P \subseteq DOMAIN s
  PROVE  About(s, P) \in SUBSET Messages
<1>1. \A i \in P : s[i] \in Item
  BY ElementOfSeq, LenProperties
<1>2. QED
  BY <1>1 DEF About, Item

(* The items of a turn are items, and none of them is a marker.            *)
LEMMA TurnItemsType ==
  ASSUME NEW r \in Requests, NEW shape \in TurnShapes
  PROVE  /\ TurnItems(r, shape) \in Seq(Item)
         /\ \A k \in DOMAIN TurnItems(r, shape) :
              TurnItems(r, shape)[k].kind # "marker"
<1>1. shape \in Seq({"message", "tool"})
  BY ConstantsAssumption
<1>2. /\ DOMAIN shape = 1 .. Len(shape) /\ Len(shape) \in Nat
      /\ \A k \in DOMAIN shape : shape[k] \in {"message", "tool"}
  BY <1>1, LenProperties, ElementOfSeq
<1>3. \A k \in DOMAIN shape : TurnItems(r, shape)[k] \in Item
  BY <1>2 DEF TurnItems, Item, Messages
<1>4. DOMAIN TurnItems(r, shape) = 1 .. Len(shape)
  BY <1>2 DEF TurnItems
<1>5. TurnItems(r, shape) \in [1 .. Len(shape) -> Item]
  BY <1>2, <1>3, <1>4 DEF TurnItems
<1>6. TurnItems(r, shape) \in Seq(Item)
  BY <1>2, <1>5, SeqDef
<1>7. QED
  BY <1>2, <1>4, <1>6 DEF TurnItems

(* Appending keeps everything that was read before.                        *)
LEMMA PrefixConcat ==
  ASSUME NEW s \in Seq(Item), NEW t \in Seq(Item), NEW e \in Seq(Item),
         Prefix(s, t)
  PROVE  /\ Prefix(s, t \o e)
         /\ t \o e \in Seq(Item)
         /\ Len(t \o e) = Len(t) + Len(e)
         /\ \A i \in DOMAIN (t \o e) :
              (t \o e)[i] = IF i <= Len(t) THEN t[i] ELSE e[i - Len(t)]
<1>1. /\ t \o e \in Seq(Item) /\ Len(t \o e) = Len(t) + Len(e)
      /\ \A i \in 1 .. Len(t) + Len(e) :
           (t \o e)[i] = IF i <= Len(t) THEN t[i] ELSE e[i - Len(t)]
  BY ConcatProperties
<1>2. /\ DOMAIN (t \o e) = 1 .. Len(t) + Len(e)
      /\ DOMAIN s = 1 .. Len(s) /\ DOMAIN t = 1 .. Len(t)
      /\ Len(s) \in Nat /\ Len(t) \in Nat /\ Len(e) \in Nat
  BY <1>1, LenProperties
<1>3. QED
  BY <1>1, <1>2 DEF Prefix

LEMMA PrefixMonotone ==
  ASSUME NEW s \in Seq(Item), NEW t \in Seq(Item), Prefix(s, t)
  PROVE  /\ DOMAIN s \subseteq DOMAIN t
         /\ Markers(s) \subseteq Markers(t)
         /\ MessagePositions(s) \subseteq MessagePositions(t)
         /\ About(s, Markers(s)) \subseteq About(t, Markers(t))
         /\ StoredMessages(s) \subseteq StoredMessages(t)
<1>1. /\ DOMAIN s = 1 .. Len(s) /\ DOMAIN t = 1 .. Len(t)
      /\ Len(s) \in Nat /\ Len(t) \in Nat
  BY LenProperties
<1>2. DOMAIN s \subseteq DOMAIN t
  BY <1>1 DEF Prefix
<1>3. /\ Markers(s) \subseteq Markers(t)
      /\ MessagePositions(s) \subseteq MessagePositions(t)
  BY <1>2 DEF Prefix, Markers, MessagePositions
<1>4. QED
  BY <1>2, <1>3 DEF Prefix, About, StoredMessages, Markers, MessagePositions

(* Splitting the recent turns loses none of them.                          *)
LEMMA SplitKeepsAll ==
  ASSUME NEW s \in Seq(Item), NEW P, P \subseteq DOMAIN s,
         NEW split \in SplitPoints(s, P)
  PROVE  /\ split \in 1 .. Len(s) + 1
         /\ Old(P, split) \subseteq P /\ Keep(P, split) \subseteq P
         /\ Old(P, split) \cup Keep(P, split) = P
         /\ About(s, P) = About(s, Old(P, split)) \cup About(s, Keep(P, split))
<1>1. DOMAIN s = 1 .. Len(s) /\ Len(s) \in Nat
  BY LenProperties
<1>2. split \in 1 .. Len(s) + 1
  BY <1>1 DEF SplitPoints, MessagePositions
<1>3. Old(P, split) \cup Keep(P, split) = P
  BY <1>1, <1>2 DEF Old, Keep
<1>4. QED
  BY <1>2, <1>3 DEF Old, Keep, About

-----------------------------------------------------------------------------
(* Type correctness.                                                       *)

LEMMA StoredType ==
  ASSUME NEW s \in Seq(Item)
  PROVE  /\ StoredMessages(s) \in SUBSET Messages
         /\ MarkerSummaries(s) \in SUBSET SUBSET Messages
         /\ ItemsAfterLastMarker(s) \subseteq DOMAIN s
         /\ DOMAIN s = 1 .. Len(s) /\ Len(s) \in Nat
<1>1. DOMAIN s = 1 .. Len(s) /\ Len(s) \in Nat
  BY LenProperties
<1>2. StoredMessages(s) \in SUBSET Messages
  BY AboutType DEF StoredMessages, MessagePositions
<1>3. MarkerSummaries(s) \in SUBSET SUBSET Messages
  <2>1. \A i \in DOMAIN s : s[i] \in Item
    BY <1>1, ElementOfSeq
  <2>2. \A i \in Markers(s) : s[i].about \in SUBSET Messages
    BY <2>1 DEF Markers, Item
  <2>3. QED
    BY <2>2 DEF MarkerSummaries
<1>4. QED
  BY <1>1, <1>2, <1>3 DEF ItemsAfterLastMarker

LEMMA DropLocalsType ==
  ASSUME LocalsOK, NEW r \in Requests, DropLocals(r)
  PROVE  LocalsOK'
<1>1. <<>> \in Seq(Item) /\ <<>> \in Seq(SUBSET Messages)
  BY EmptySeq
<1>2. NoChunk \in [about : SUBSET Messages, covers : Nat]
  BY DEF NoChunk
<1>3. QED
  BY <1>1, <1>2 DEF LocalsOK, DropLocals

LEMMA ConcludeType ==
  ASSUME TypeOK, NEW r \in Requests, NEW s \in Seq(Item),
         NEW ss \in SUBSET SUBSET Messages, NEW rec, rec \subseteq DOMAIN s,
         Conclude(r, s, ss, rec)
  PROVE  /\ holder' \in [Workers -> Requests \cup {NoRequest}]
         /\ pc' \in [Requests -> Points \cup {"idle", "done", "failed"}]
         /\ ctx' \in [Requests -> SUBSET Messages]
         /\ LocalsOK'
<1>1. (UNION ss) \cup About(s, rec) \in SUBSET Messages
  BY AboutType
<1>2. /\ holder' \in [Workers -> Requests \cup {NoRequest}]
      /\ pc' \in [Requests -> Points \cup {"idle", "done", "failed"}]
      /\ ctx' \in [Requests -> SUBSET Messages]
  BY <1>1 DEF TypeOK, Conclude, Goto, Release, Points
<1>3. QED
  BY <1>2, DropLocalsType DEF Conclude, TypeOK

LEMMA FoldOrConcludeType ==
  ASSUME TypeOK, NEW r \in Requests, NEW s \in Seq(Item),
         NEW ss \in SUBSET SUBSET Messages, NEW rs \in Seq(SUBSET Messages),
         NEW rec, rec \subseteq DOMAIN s,
         FoldOrConclude(r, s, ss, rs, rec)
  PROVE  /\ holder' \in [Workers -> Requests \cup {NoRequest}]
         /\ pc' \in [Requests -> Points \cup {"idle", "done", "failed"}]
         /\ ctx' \in [Requests -> SUBSET Messages]
         /\ LocalsOK'
<1>1. CASE Conclude(r, s, ss, rec)
  BY <1>1, ConcludeType
<1>2. CASE StartFold(r, s, ss, rs, rec)
  <2>1. rec \in SUBSET Nat
    BY LenProperties
  <2>2. NoChunk \in [about : SUBSET Messages, covers : Nat]
    BY DEF NoChunk
  <2>3. pc' \in [Requests -> Points \cup {"idle", "done", "failed"}]
    BY <1>2 DEF StartFold, TypeOK, Goto, Points
  <2>4. QED
    BY <1>2, <2>1, <2>2, <2>3 DEF StartFold, TypeOK, LocalsOK
<1>3. QED
  BY <1>1, <1>2 DEF FoldOrConclude

(* What the cache returns, and what it says.                               *)
LEMMA CacheReadsType ==
  ASSUME TypeOK, NEW r \in Requests, NEW rs \in CacheReads(r)
  PROVE  rs \in Seq(SUBSET Messages)
<1>1. UserOf[r] \in Users
  BY ConstantsAssumption
<1>2. cached[UserOf[r]] \in Seq(SUBSET Messages)
  BY <1>1 DEF TypeOK
<1>3. <<>> \in Seq(SUBSET Messages)
  BY EmptySeq
<1>4. rs = <<>> \/ rs = cached[UserOf[r]]
  BY DEF CacheReads
<1>5. QED
  BY <1>2, <1>3, <1>4

LEMMA SummarySetType ==
  ASSUME NEW rs \in Seq(SUBSET Messages)
  PROVE  SummarySet(rs) \in SUBSET SUBSET Messages
<1>1. \A i \in DOMAIN rs : rs[i] \in SUBSET Messages
  BY ElementOfSeq, LenProperties
<1>2. QED
  BY <1>1 DEF SummarySet

(* Every variable stays in its type, whatever requests, workers and        *)
(* failures there are.                                                     *)
THEOREM TypeCorrect == Spec => []TypeOK
<1>1. Init => TypeOK
  <2>1. <<>> \in Seq(Item) /\ <<>> \in Seq(SUBSET Messages)
    BY EmptySeq
  <2>2. NoChunk \in [about : SUBSET Messages, covers : Nat]
    BY DEF NoChunk
  <2>3. QED
    BY <2>1, <2>2 DEF Init, TypeOK, LocalsOK
<1>2. TypeOK /\ [Next]_vars => TypeOK'
  <2> SUFFICES ASSUME TypeOK, [Next]_vars PROVE TypeOK'
    OBVIOUS
  <2>1. CASE UNCHANGED vars
    BY <2>1 DEF vars, locals, TypeOK, LocalsOK
  <2>2. ASSUME NEW r \in Requests, Arrive(r) PROVE TypeOK'
    BY <2>2, StoredType DEF Arrive, Goto, locals, TypeOK, LocalsOK, Points
  <2>3. ASSUME NEW r \in Requests, Probe(r) PROVE TypeOK'
    BY <2>3 DEF Probe, Goto, locals, TypeOK, LocalsOK, Points
  <2>4. ASSUME NEW r \in Requests, Acquire(r) PROVE TypeOK'
    BY <2>4, ConstantsAssumption DEF Acquire, Goto, locals, TypeOK, LocalsOK, Points
  <2>5. ASSUME NEW r \in Requests, Evaluate(r) PROVE TypeOK'
    <3>1. PICK rs \in CacheReads(r) :
            LET ss == IF rs # <<>> THEN SummarySet(rs) ELSE MarkerSummaries(items)
                rec == ItemsAfterLastMarker(items)
            IN  \/ FoldOrConclude(r, items, ss, rs, rec)
                \/ \E split \in SplitPoints(items, rec) :
                     StartSummary(r, ss, rs, rec, split)
      BY <2>5 DEF Evaluate
    <3> DEFINE ss == IF rs # <<>> THEN SummarySet(rs) ELSE MarkerSummaries(items)
               rec == ItemsAfterLastMarker(items)
    <3>2. /\ rs \in Seq(SUBSET Messages) /\ items \in Seq(Item)
          /\ ss \in SUBSET SUBSET Messages /\ rec \subseteq DOMAIN items
      BY CacheReadsType, SummarySetType, StoredType DEF TypeOK
    <3>3. UNCHANGED <<items, cached, asked>>
      BY <2>5 DEF Evaluate
    <3> HIDE DEF ss, rec
    <3>4. CASE FoldOrConclude(r, items, ss, rs, rec)
      BY <3>2, <3>3, <3>4, FoldOrConcludeType DEF TypeOK
    <3>5. ASSUME NEW split \in SplitPoints(items, rec),
                 StartSummary(r, ss, rs, rec, split)
          PROVE  TypeOK'
      <4>1. /\ split \in 1 .. Len(items) + 1 /\ Len(items) \in Nat
            /\ Old(rec, split) \subseteq DOMAIN items
            /\ Keep(rec, split) \subseteq DOMAIN items
            /\ DOMAIN items = 1 .. Len(items)
        BY <3>2, SplitKeepsAll, LenProperties
      <4>2. About(items, Old(rec, split)) \in SUBSET Messages
        BY <3>2, <4>1, AboutType
      <4>3. [about |-> About(items, Old(rec, split)),
             covers |-> CoveredItemCount(split)]
              \in [about : SUBSET Messages, covers : Nat]
        BY <4>1, <4>2 DEF CoveredItemCount
      <4>4. Keep(rec, split) \in SUBSET Nat
        BY <4>1
      <4>5. pc' \in [Requests -> Points \cup {"idle", "done", "failed"}]
        BY <3>5 DEF StartSummary, Goto, TypeOK, Points
      <4>6. LocalsOK'
        BY <3>2, <3>5, <4>1, <4>3, <4>4 DEF StartSummary, TypeOK, LocalsOK
      <4>7. QED
        BY <3>3, <3>5, <4>5, <4>6 DEF StartSummary, TypeOK
    <3>6. QED
      BY <3>1, <3>4, <3>5 DEF ss, rec
  <2>6. ASSUME NEW r \in Requests, Summarize(r) PROVE TypeOK'
    BY <2>6 DEF Summarize, Goto, locals, TypeOK, LocalsOK, Points
  <2>7. ASSUME NEW r \in Requests, WriteMarker(r) PROVE TypeOK'
    <3>1. MarkerItem(chunk[r]) \in Item
      BY DEF TypeOK, LocalsOK, MarkerItem, Item
    <3>2. items' \in Seq(Item)
      BY <2>7, <3>1, AppendProperties DEF WriteMarker, TypeOK
    <3>3. QED
      BY <2>7, <3>2 DEF WriteMarker, Goto, locals, TypeOK, LocalsOK, Points
  <2>8. ASSUME NEW r \in Requests, RecordChunk(r) PROVE TypeOK'
    <3>1. /\ chunk[r].about \in SUBSET Messages /\ UserOf[r] \in Users
          /\ snap[r] \in Seq(Item) /\ recent[r] \subseteq DOMAIN snap[r]
          /\ rows[r] \in Seq(SUBSET Messages)
          /\ cached[UserOf[r]] \in Seq(SUBSET Messages)
      BY ConstantsAssumption DEF TypeOK, LocalsOK
    <3>2. /\ Append(rows[r], chunk[r].about) \in Seq(SUBSET Messages)
          /\ Append(cached[UserOf[r]], chunk[r].about) \in Seq(SUBSET Messages)
      BY <3>1, AppendProperties
    <3>3. cached' \in [Users -> Seq(SUBSET Messages)]
      BY <2>8, <3>1, <3>2 DEF RecordChunk, TypeOK
    <3>4. sums[r] \cup {chunk[r].about} \in SUBSET SUBSET Messages
      BY <3>1 DEF TypeOK, LocalsOK
    <3>5. FoldOrConclude(r, snap[r], sums[r] \cup {chunk[r].about},
                         Append(rows[r], chunk[r].about), recent[r])
      BY <2>8 DEF RecordChunk
    <3>6. UNCHANGED <<items, asked>>
      BY <2>8 DEF RecordChunk
    <3>7. QED
      BY <3>1, <3>2, <3>3, <3>4, <3>5, <3>6, FoldOrConcludeType DEF TypeOK
  <2>9. ASSUME NEW r \in Requests, Fold(r) PROVE TypeOK'
    <3>1. CASE DeleteRows(r)
      <4>1. /\ cached' \in [Users -> Seq(SUBSET Messages)]
            /\ pc' \in [Requests -> Points \cup {"idle", "done", "failed"}]
        <5>1. <<>> \in Seq(SUBSET Messages) /\ UserOf[r] \in Users
          BY EmptySeq, ConstantsAssumption
        <5>2. QED
          BY <3>1, <5>1 DEF DeleteRows, Goto, TypeOK, Points
      <4>2. QED
        BY <2>9, <3>1, <4>1 DEF Fold, DeleteRows, TypeOK, LocalsOK, locals
    <3>2. CASE GoOnUnfolded(r, "delete")
      <4>1. /\ snap[r] \in Seq(Item) /\ recent[r] \subseteq DOMAIN snap[r]
            /\ sums[r] \in SUBSET SUBSET Messages
        BY DEF TypeOK, LocalsOK
      <4>2. QED
        BY <2>9, <3>2, <4>1, ConcludeType DEF Fold, GoOnUnfolded, TypeOK
    <3>3. QED
      BY <2>9, <3>1, <3>2 DEF Fold
  <2>14. ASSUME NEW r \in Requests, InsertFold(r) PROVE TypeOK'
    <3> DEFINE folded == UNION SummarySet(rows[r])
    <3>1. /\ snap[r] \in Seq(Item) /\ recent[r] \subseteq DOMAIN snap[r]
          /\ rows[r] \in Seq(SUBSET Messages) /\ UserOf[r] \in Users
          /\ sums[r] \in SUBSET SUBSET Messages
      BY ConstantsAssumption DEF TypeOK, LocalsOK
    <3>2. folded \in SUBSET Messages
      BY <3>1, SummarySetType
    <3>3. /\ Append(cached[UserOf[r]], folded) \in Seq(SUBSET Messages)
          /\ {folded} \in SUBSET SUBSET Messages
      BY <3>1, <3>2, AppendProperties DEF TypeOK
    <3>4. \E ss \in SUBSET SUBSET Messages : Conclude(r, snap[r], ss, recent[r])
      BY <2>14, <3>1, <3>3 DEF InsertFold, GoOnUnfolded
    <3>5. /\ \/ cached' = cached
             \/ cached' = [cached EXCEPT ![UserOf[r]] =
                                     Append(cached[UserOf[r]], folded)]
          /\ UNCHANGED <<items, asked>>
      BY <2>14 DEF InsertFold, GoOnUnfolded
    <3> HIDE DEF folded
    <3>7. cached' \in [Users -> Seq(SUBSET Messages)]
      BY <3>1, <3>3, <3>5 DEF TypeOK
    <3>6. QED
      BY <3>1, <3>4, <3>5, <3>7, ConcludeType DEF TypeOK
  <2>10. ASSUME NEW r \in Requests, Infer(r) PROVE TypeOK'
    BY <2>10, StoredType DEF Infer, Goto, locals, TypeOK, LocalsOK, Points
  <2>11. ASSUME NEW r \in Requests, StoreTurn(r) PROVE TypeOK'
    <3>1. items' \in Seq(Item)
      BY <2>11, TurnItemsType, ConcatProperties DEF StoreTurn, TypeOK
    <3>2. QED
      BY <2>11, <3>1 DEF StoreTurn, Goto, locals, TypeOK, LocalsOK, Points
  <2>12. ASSUME NEW r \in Requests, Abort(r) PROVE TypeOK'
    <3>1. LocalsOK'
      BY <2>12, DropLocalsType DEF Abort, TypeOK
    <3>2. QED
      BY <2>12, <3>1 DEF Abort, Goto, Release, TypeOK
  <2>13. QED
    BY <2>1, <2>2, <2>3, <2>4, <2>5, <2>6, <2>7, <2>8, <2>9, <2>10, <2>11,
       <2>12, <2>14 DEF Next
<1>3. QED
  BY <1>1, <1>2, PTL DEF Spec

-----------------------------------------------------------------------------
(* The markers are authoritative, with or without a cache.                 *)

(* A message that is not among the recent turns is behind the boundary of  *)
(* the last marker, hence in the text of some marker.                      *)
LEMMA BehindBoundary ==
  ASSUME NEW s \in Seq(Item), MarkersSound(s), NEW i \in MessagePositions(s),
         i \notin ItemsAfterLastMarker(s)
  PROVE  s[i].about \subseteq About(s, Markers(s))
<1>1. i \in DOMAIN s \ Markers(s)
  BY DEF MessagePositions, Markers
<1>2. PICK m \in Markers(s) : ~ (i > s[m].covers)
  BY <1>1 DEF ItemsAfterLastMarker
<1>3. i \in Nat /\ s[m].covers \in Nat
  BY <1>1, <1>2, ItemAt DEF Markers
<1>4. i <= s[m].covers
  BY <1>2, <1>3
<1>5. QED
  BY <1>2, <1>4 DEF MarkersSound

(* The chunk split off the recent turns speaks, with the markers already   *)
(* there, for every message before the split.                              *)
LEMMA SplitSound ==
  ASSUME NEW s \in Seq(Item), MarkersSound(s),
         NEW split \in SplitPoints(s, ItemsAfterLastMarker(s))
  PROVE  /\ CoveredItemCount(split) <= Len(s)
         /\ \A i \in MessagePositions(s) : i <= CoveredItemCount(split) =>
              s[i].about \subseteq
                (About(s, Old(ItemsAfterLastMarker(s), split))
                   \cup About(s, Markers(s)))
<1>1. /\ split \in 1 .. Len(s) + 1 /\ DOMAIN s = 1 .. Len(s) /\ Len(s) \in Nat
      /\ ItemsAfterLastMarker(s) \subseteq DOMAIN s
  BY SplitKeepsAll, StoredType
<1>2. ASSUME NEW i \in MessagePositions(s), i <= CoveredItemCount(split),
             i \in ItemsAfterLastMarker(s)
      PROVE  i \in Old(ItemsAfterLastMarker(s), split)
  BY <1>1, <1>2 DEF Old, CoveredItemCount, MessagePositions
<1>3. QED
  BY <1>1, <1>2, BehindBoundary DEF CoveredItemCount, About

(* A step that leaves the items alone concerns one request only.           *)
LEMMA CompactionFrame ==
  ASSUME CompactionInv, items' = items, NEW r \in Requests,
         \A q \in Requests \ {r} :
           snap'[q] = snap[q] /\ chunk'[q] = chunk[q] /\ pc'[q] = pc[q],
         Prefix(snap'[r], items),
         pc'[r] \in {"summarize", "mark"} => ChunkSound(r)'
  PROVE  CompactionInv'
BY DEF CompactionInv, ChunkSound

LEMMA ConcludeKeepsCompaction ==
  ASSUME TypeOK, CompactionInv, items' = items, NEW r \in Requests,
         NEW s, NEW ss, NEW rec, Conclude(r, s, ss, rec)
  PROVE  CompactionInv'
<1>1. /\ pc'[r] \notin {"summarize", "mark"} /\ snap'[r] = <<>>
      /\ \A q \in Requests \ {r} :
           snap'[q] = snap[q] /\ chunk'[q] = chunk[q] /\ pc'[q] = pc[q]
  BY DEF Conclude, DropLocals, Goto, TypeOK, LocalsOK
<1>2. Prefix(<<>>, items)
  BY LenProperties DEF Prefix, TypeOK
<1>3. QED
  BY <1>1, <1>2, CompactionFrame

LEMMA FoldOrConcludeKeepsCompaction ==
  ASSUME TypeOK, CompactionInv, items' = items, NEW r \in Requests,
         NEW s, Prefix(s, items), NEW ss, NEW rs, NEW rec,
         FoldOrConclude(r, s, ss, rs, rec)
  PROVE  CompactionInv'
<1>1. CASE StartFold(r, s, ss, rs, rec)
  <2>1. /\ pc'[r] = "fold" /\ snap'[r] = s
        /\ \A q \in Requests \ {r} :
             snap'[q] = snap[q] /\ chunk'[q] = chunk[q] /\ pc'[q] = pc[q]
    BY <1>1 DEF StartFold, Goto, TypeOK, LocalsOK
  <2>2. QED
    BY <2>1, CompactionFrame
<1>2. QED
  BY <1>1, ConcludeKeepsCompaction DEF FoldOrConclude

(* The conversation grows by a turn or by the marker of a sound chunk.     *)
LEMMA GrowthKeepsCompaction ==
  ASSUME TypeOK, CompactionInv, NEW e \in Seq(Item), items' = items \o e,
         UNCHANGED <<snap, chunk>>,
         \A q \in Requests : pc'[q] \in {"summarize", "mark"} => pc'[q] = pc[q],
         \A k \in DOMAIN e : e[k].kind = "marker" =>
           /\ e[k].covers <= Len(items)
           /\ \A i \in MessagePositions(items) : i <= e[k].covers =>
                items[i].about \subseteq
                  (e[k].about \cup About(items, Markers(items)))
  PROVE  CompactionInv'
<1> DEFINE t == items \o e
<1>1. /\ items \in Seq(Item) /\ t \in Seq(Item) /\ Prefix(items, t)
      /\ Len(t) = Len(items) + Len(e) /\ Len(items) \in Nat /\ Len(e) \in Nat
      /\ DOMAIN items = 1 .. Len(items) /\ DOMAIN e = 1 .. Len(e)
      /\ DOMAIN t = 1 .. Len(items) + Len(e)
      /\ \A i \in DOMAIN t :
           t[i] = IF i <= Len(items) THEN items[i] ELSE e[i - Len(items)]
  <2>1. items \in Seq(Item) /\ Prefix(items, items)
    BY LenProperties DEF TypeOK, Prefix
  <2>2. QED
    BY <2>1, PrefixConcat, LenProperties
<1> HIDE DEF t
<1>2. /\ Markers(items) \subseteq Markers(t)
      /\ About(items, Markers(items)) \subseteq About(t, Markers(t))
  BY <1>1, PrefixMonotone
<1>3. ASSUME NEW m \in Markers(t)
      PROVE  /\ t[m].covers < m
             /\ \A i \in MessagePositions(t) : i <= t[m].covers =>
                  t[i].about \subseteq About(t, Markers(t))
  <2>1. t[m] \in Item /\ m \in 1 .. Len(t) /\ t[m].covers \in Nat
    BY <1>1, ItemAt DEF Markers
  <2>2. CASE m <= Len(items)
    <3>1. m \in Markers(items) /\ t[m] = items[m]
      BY <1>1, <2>1, <2>2 DEF Markers
    <3>2. t[m].covers < m
      BY <3>1 DEF CompactionInv
    <3>3. ASSUME NEW i \in MessagePositions(t), i <= t[m].covers
          PROVE  t[i].about \subseteq About(t, Markers(t))
      <4>1. i \in MessagePositions(items) /\ t[i] = items[i]
        BY <1>1, <2>1, <2>2, <3>2, <3>3 DEF MessagePositions
      <4>2. items[i].about \subseteq About(items, Markers(items))
        BY <3>1, <3>3, <4>1 DEF CompactionInv, MarkersSound
      <4>3. QED
        BY <1>2, <4>1, <4>2
    <3>4. QED
      BY <3>2, <3>3
  <2>3. CASE m > Len(items)
    <3> DEFINE k == m - Len(items)
    <3>1. k \in DOMAIN e /\ t[m] = e[k] /\ e[k].kind = "marker"
      BY <1>1, <2>1, <2>3 DEF Markers
    <3>2. t[m].covers <= Len(items)
      BY <3>1
    <3>3. t[m].about \subseteq About(t, Markers(t))
      BY DEF About
    <3>4. ASSUME NEW i \in MessagePositions(t), i <= t[m].covers
          PROVE  t[i].about \subseteq About(t, Markers(t))
      <4>1. i \in MessagePositions(items) /\ t[i] = items[i]
        BY <1>1, <2>1, <3>2, <3>4 DEF MessagePositions
      <4>2. items[i].about \subseteq
              (t[m].about \cup About(items, Markers(items)))
        BY <3>1, <3>4, <4>1
      <4>3. QED
        BY <1>2, <3>3, <4>1, <4>2
    <3>5. QED
      BY <1>1, <2>1, <2>3, <3>2, <3>4
  <2>4. QED
    BY <1>1, <2>1, <2>2, <2>3
<1>4. \A q \in Requests : Prefix(snap[q], t)
  BY <1>1, PrefixConcat DEF CompactionInv, TypeOK, LocalsOK, t
<1>5. QED
  BY <1>3, <1>4 DEF CompactionInv, MarkersSound, ChunkSound, t

LEMMA CompactionInvStep ==
  ASSUME TypeOK, CompactionInv, [Next]_vars
  PROVE  CompactionInv'
<1>1. CASE UNCHANGED vars
  BY <1>1 DEF vars, locals, CompactionInv, ChunkSound
<1>2. ASSUME NEW r \in Requests,
             Arrive(r) \/ Probe(r) \/ Acquire(r) \/ Infer(r)
      PROVE  CompactionInv'
  <2>1. /\ UNCHANGED <<items, snap, chunk>>
        /\ \A q \in Requests : pc'[q] \in {"summarize", "mark"} => pc'[q] = pc[q]
    BY <1>2 DEF Arrive, Probe, Acquire, Infer, Goto, locals, TypeOK
  <2>2. QED
    BY <2>1 DEF CompactionInv, ChunkSound
<1>3. ASSUME NEW r \in Requests, Summarize(r) PROVE CompactionInv'
  <2>1. /\ UNCHANGED <<items, snap, chunk>> /\ pc[r] = "summarize"
        /\ \A q \in Requests \ {r} : pc'[q] = pc[q]
    BY <1>3 DEF Summarize, Goto, locals, TypeOK
  <2>2. QED
    BY <2>1 DEF CompactionInv, ChunkSound
<1>4. ASSUME NEW r \in Requests, Evaluate(r) PROVE CompactionInv'
  <2>1. /\ items' = items /\ items \in Seq(Item) /\ Prefix(items, items)
        /\ MarkersSound(items)
    BY <1>4, LenProperties DEF Evaluate, TypeOK, Prefix, CompactionInv
  <2>2. PICK rs \in CacheReads(r) :
          \E ss :
            \/ FoldOrConclude(r, items, ss, rs, ItemsAfterLastMarker(items))
            \/ \E split \in SplitPoints(items, ItemsAfterLastMarker(items)) :
                 StartSummary(r, ss, rs, ItemsAfterLastMarker(items), split)
    BY <1>4 DEF Evaluate
  <2>3. ASSUME NEW ss,
               FoldOrConclude(r, items, ss, rs, ItemsAfterLastMarker(items))
        PROVE  CompactionInv'
    BY <2>1, <2>3, FoldOrConcludeKeepsCompaction
  <2>4. ASSUME NEW ss, NEW split \in SplitPoints(items, ItemsAfterLastMarker(items)),
               StartSummary(r, ss, rs, ItemsAfterLastMarker(items), split)
        PROVE  CompactionInv'
    <3>1. /\ snap'[r] = items
          /\ chunk'[r] = [about |-> About(items, Old(ItemsAfterLastMarker(items), split)),
                          covers |-> CoveredItemCount(split)]
          /\ \A q \in Requests \ {r} :
               snap'[q] = snap[q] /\ chunk'[q] = chunk[q] /\ pc'[q] = pc[q]
      BY <2>4 DEF StartSummary, Goto, TypeOK, LocalsOK
    <3>2. ChunkSound(r)'
      BY <2>1, <3>1, SplitSound DEF ChunkSound
    <3>3. QED
      BY <2>1, <3>1, <3>2, CompactionFrame
  <2>5. QED
    BY <2>2, <2>3, <2>4
<1>5. ASSUME NEW r \in Requests, WriteMarker(r) PROVE CompactionInv'
  <2> DEFINE m == MarkerItem(chunk[r])
  <2>1. /\ m \in Item /\ items \in Seq(Item) /\ snap[r] \in Seq(Item)
        /\ m.about = chunk[r].about /\ m.covers = chunk[r].covers
    BY DEF MarkerItem, Item, TypeOK, LocalsOK
  <2>2. /\ items' = items \o <<m>> /\ <<m>> \in Seq(Item)
        /\ DOMAIN <<m>> = {1} /\ <<m>>[1] = m
    BY <1>5, <2>1, AppendIsConcat DEF WriteMarker
  <2>3. /\ UNCHANGED <<snap, chunk>> /\ pc[r] = "mark"
        /\ \A q \in Requests : pc'[q] \in {"summarize", "mark"} => pc'[q] = pc[q]
    BY <1>5 DEF WriteMarker, Goto, locals, TypeOK
  <2>4. ChunkSound(r) /\ Prefix(snap[r], items)
    BY <2>3 DEF CompactionInv
  <2>5. m.covers <= Len(items)
    BY <2>1, <2>4, LenProperties DEF ChunkSound, Prefix, TypeOK, LocalsOK
  <2>6. ASSUME NEW i \in MessagePositions(items), i <= m.covers
        PROVE  items[i].about \subseteq
                 (m.about \cup About(items, Markers(items)))
    <3>1. i \in MessagePositions(snap[r]) /\ snap[r][i] = items[i]
      <4>1. i \in Nat /\ i >= 1 /\ Len(snap[r]) \in Nat /\ chunk[r].covers \in Nat
            /\ DOMAIN snap[r] = 1 .. Len(snap[r])
        BY <2>1, ItemAt, LenProperties DEF MessagePositions, TypeOK, LocalsOK
      <4>2. i \in DOMAIN snap[r]
        BY <2>1, <2>4, <2>6, <4>1 DEF ChunkSound
      <4>3. QED
        BY <2>4, <4>2 DEF Prefix, MessagePositions
    <3>2. About(snap[r], Markers(snap[r])) \subseteq About(items, Markers(items))
      BY <2>1, <2>4, PrefixMonotone
    <3>3. QED
      BY <2>1, <2>4, <2>6, <3>1, <3>2 DEF ChunkSound
  <2> HIDE DEF m
  <2>7. QED
    BY <2>2, <2>3, <2>5, <2>6, GrowthKeepsCompaction
<1>6. ASSUME NEW r \in Requests, RecordChunk(r) PROVE CompactionInv'
  <2>1. items' = items /\ Prefix(snap[r], items)
    BY <1>6 DEF RecordChunk, CompactionInv
  <2>2. FoldOrConclude(r, snap[r], sums[r] \cup {chunk[r].about},
                       Append(rows[r], chunk[r].about), recent[r])
    BY <1>6 DEF RecordChunk
  <2>3. QED
    BY <2>1, <2>2, FoldOrConcludeKeepsCompaction
<1>7. ASSUME NEW r \in Requests, Fold(r) \/ InsertFold(r) PROVE CompactionInv'
  <2>1. CASE Fold(r) /\ DeleteRows(r)
    <3>1. /\ UNCHANGED <<items, snap, chunk>>
          /\ \A q \in Requests : pc'[q] \in {"summarize", "mark"} => pc'[q] = pc[q]
      BY <2>1 DEF Fold, DeleteRows, Goto, locals, TypeOK
    <3>2. QED
      BY <3>1 DEF CompactionInv, ChunkSound
  <2>2. CASE \E ss : Conclude(r, snap[r], ss, recent[r])
    <3>1. items' = items
      BY <1>7 DEF Fold, InsertFold
    <3>2. QED
      BY <2>2, <3>1, ConcludeKeepsCompaction
  <2>3. QED
    BY <1>7, <2>1, <2>2 DEF Fold, InsertFold, GoOnUnfolded
<1>8. ASSUME NEW r \in Requests, StoreTurn(r) PROVE CompactionInv'
  <2>1. PICK shape \in TurnShapes : items' = items \o TurnItems(r, shape)
    BY <1>8 DEF StoreTurn
  <2>2. /\ UNCHANGED <<snap, chunk>>
        /\ \A q \in Requests : pc'[q] \in {"summarize", "mark"} => pc'[q] = pc[q]
    BY <1>8 DEF StoreTurn, Goto, locals, TypeOK
  <2>3. QED
    BY <2>1, <2>2, TurnItemsType, GrowthKeepsCompaction
<1>9. ASSUME NEW r \in Requests, Abort(r) PROVE CompactionInv'
  <2>1. /\ items' = items /\ snap'[r] = <<>> /\ pc'[r] = "failed"
        /\ \A q \in Requests \ {r} :
             snap'[q] = snap[q] /\ chunk'[q] = chunk[q] /\ pc'[q] = pc[q]
    BY <1>9 DEF Abort, DropLocals, Goto, TypeOK, LocalsOK
  <2>2. Prefix(<<>>, items)
    BY LenProperties DEF Prefix, TypeOK
  <2>3. QED
    BY <2>1, <2>2, CompactionFrame
<1>10. QED
  BY <1>1, <1>2, <1>3, <1>4, <1>5, <1>6, <1>7, <1>8, <1>9 DEF Next

(* Whatever fails and whoever races, in however many workers and with or   *)
(* without a cache, every message that a marker counts as covered is in    *)
(* the text of a marker: the markers can always stand in for the cache.    *)
THEOREM MarkersStayAuthoritative == Spec => []MarkersAuthoritative
<1>1. Init => CompactionInv
  <2> SUFFICES ASSUME Init PROVE CompactionInv
    OBVIOUS
  <2>1. items = <<>> /\ DOMAIN items = {} /\ \A r \in Requests : snap[r] = <<>>
    BY DEF Init
  <2>2. QED
    BY <2>1 DEF Init, CompactionInv, MarkersSound, Markers, Prefix
<1>2. CompactionInv => MarkersAuthoritative
  BY DEF CompactionInv, MarkersAuthoritative
<1>3. TypeOK /\ CompactionInv /\ [Next]_vars => CompactionInv'
  BY CompactionInvStep
<1>4. QED
  BY <1>1, <1>2, <1>3, TypeCorrect, PTL DEF Spec

-----------------------------------------------------------------------------
(* In marker-only mode compaction loses nothing.                           *)

(* Summaries and recent turns together speak for the whole conversation.   *)
LEMMA WholeConversation ==
  ASSUME NEW s \in Seq(Item), MarkersSound(s)
  PROVE  /\ UNION MarkerSummaries(s) = About(s, Markers(s))
         /\ StoredMessages(s) \subseteq
              (About(s, Markers(s)) \cup About(s, ItemsAfterLastMarker(s)))
         /\ About(s, ItemsAfterLastMarker(s)) \subseteq StoredMessages(s)
<1>1. UNION MarkerSummaries(s) = About(s, Markers(s))
  BY DEF MarkerSummaries, About
<1>2. ASSUME NEW i \in MessagePositions(s)
      PROVE  s[i].about \subseteq
               (About(s, Markers(s)) \cup About(s, ItemsAfterLastMarker(s)))
  <2>1. CASE i \in ItemsAfterLastMarker(s)
    BY <2>1 DEF About
  <2>2. QED
    BY <2>1, BehindBoundary
<1>3. About(s, ItemsAfterLastMarker(s)) \subseteq StoredMessages(s)
  <2>1. ASSUME NEW i \in ItemsAfterLastMarker(s)
        PROVE  i \in MessagePositions(s) \/ s[i].about = {}
    BY ItemAt DEF ItemsAfterLastMarker, Markers, MessagePositions, Item
  <2>2. QED
    BY <2>1 DEF About, StoredMessages
<1>4. QED
  BY <1>1, <1>2, <1>3 DEF StoredMessages, About

(* A stored turn adds its own messages and no marker.                      *)
LEMMA TurnGrows ==
  ASSUME NEW s \in Seq(Item), NEW r \in Requests, NEW shape \in TurnShapes
  PROVE  LET t == s \o TurnItems(r, shape)
         IN  /\ StoredMessages(s) \subseteq StoredMessages(t)
             /\ About(t, Markers(t)) = About(s, Markers(s))
             /\ StoredMessages(t) \ StoredMessages(s) \subseteq
                  {r} \X (Nat \ {0})
<1> DEFINE e == TurnItems(r, shape)
           t == s \o e
<1>1. /\ e \in Seq(Item)
      /\ \A k \in DOMAIN e : e[k].kind # "marker"
      /\ \A k \in DOMAIN e : e[k].about \subseteq {r} \X (Nat \ {0})
  <2>1. shape \in Seq({"message", "tool"})
    BY ConstantsAssumption
  <2>2. DOMAIN shape \subseteq Nat \ {0}
    BY <2>1, LenProperties
  <2>3. \A k \in DOMAIN e : e[k].about \subseteq {r} \X (Nat \ {0})
    BY <2>2 DEF TurnItems
  <2>4. QED
    BY <2>3, TurnItemsType
<1> HIDE DEF e
<1>2. Prefix(s, s)
  BY LenProperties DEF Prefix
<1>3. /\ Prefix(s, t) /\ t \in Seq(Item) /\ Len(t) = Len(s) + Len(e)
      /\ \A i \in DOMAIN t : t[i] = IF i <= Len(s) THEN s[i] ELSE e[i - Len(s)]
  BY <1>1, <1>2, PrefixConcat
<1>4. /\ DOMAIN s = 1 .. Len(s) /\ DOMAIN t = 1 .. Len(s) + Len(e)
      /\ DOMAIN e = 1 .. Len(e) /\ Len(s) \in Nat /\ Len(e) \in Nat
  BY <1>1, <1>3, LenProperties
<1> HIDE DEF t
<1>5. \A i \in DOMAIN t :
        \/ i \in DOMAIN s /\ t[i] = s[i]
        \/ i - Len(s) \in DOMAIN e /\ t[i] = e[i - Len(s)]
  BY <1>3, <1>4
<1>6. StoredMessages(s) \subseteq StoredMessages(t)
  BY <1>3, PrefixMonotone
<1>7. About(t, Markers(t)) = About(s, Markers(s))
  <2>1. \A i \in Markers(t) : i \in Markers(s) /\ t[i] = s[i]
    BY <1>1, <1>5 DEF Markers
  <2>2. About(s, Markers(s)) \subseteq About(t, Markers(t))
    BY <1>3, PrefixMonotone
  <2>3. QED
    BY <2>1, <2>2 DEF About
<1>8. StoredMessages(t) \ StoredMessages(s) \subseteq {r} \X (Nat \ {0})
  <2>1. \A i \in MessagePositions(t) :
          \/ i \in MessagePositions(s) /\ t[i] = s[i]
          \/ t[i].about \subseteq {r} \X (Nat \ {0})
    BY <1>1, <1>5 DEF MessagePositions
  <2>2. QED
    BY <2>1 DEF StoredMessages, About
<1>9. QED
  BY <1>6, <1>7, <1>8 DEF t, e

(* Only the request that moves changes what it knows, and what is stored   *)
(* stays stored.                                                           *)
LEMMA KnowledgeFrame ==
  ASSUME KnowledgeInv, NEW r \in Requests,
         StoredMessages(items) \subseteq StoredMessages(items'),
         About(items', Markers(items')) \subseteq StoredMessages(items'),
         \A q \in Requests \ {r} :
           /\ pc'[q] = pc[q] /\ asked'[q] = asked[q] /\ ctx'[q] = ctx[q]
           /\ snap'[q] = snap[q] /\ sums'[q] = sums[q]
           /\ recent'[q] = recent[q] /\ chunk'[q] = chunk[q],
         KnowledgeOf(r)'
  PROVE  KnowledgeInv'
<1>1. ASSUME NEW q \in Requests \ {r} PROVE KnowledgeOf(q)'
  <2>1. KnowledgeOf(q)
    BY DEF KnowledgeInv
  <2>2. Known(q)' = Known(q)
    BY DEF Known
  <2>3. QED
    BY <2>1, <2>2 DEF KnowledgeOf
<1>2. QED
  BY <1>1 DEF KnowledgeInv

(* A request that drops its locals knows nothing but its context.          *)
LEMMA NothingHeld ==
  ASSUME TypeOK, NEW r \in Requests, DropLocals(r)
  PROVE  /\ Known(r)' = {}
         /\ \A q \in Requests \ {r} :
              /\ snap'[q] = snap[q] /\ sums'[q] = sums[q]
              /\ recent'[q] = recent[q] /\ chunk'[q] = chunk[q]
<1>1. /\ snap'[r] = <<>> /\ sums'[r] = {} /\ recent'[r] = {}
      /\ chunk'[r] = NoChunk
      /\ \A q \in Requests \ {r} :
           /\ snap'[q] = snap[q] /\ sums'[q] = sums[q]
           /\ recent'[q] = recent[q] /\ chunk'[q] = chunk[q]
  BY DEF DropLocals, TypeOK, LocalsOK
<1>2. Known(r)' = {}
  BY <1>1 DEF Known, NoChunk, About
<1>3. QED
  BY <1>1, <1>2

LEMMA ConcludeKnows ==
  ASSUME TypeOK, KnowledgeInv, UNCHANGED <<items, asked>>, NEW r \in Requests,
         NEW s, NEW ss, NEW rec, Conclude(r, s, ss, rec),
         asked[r] \subseteq ((UNION ss) \cup About(s, rec)),
         ((UNION ss) \cup About(s, rec)) \subseteq StoredMessages(items)
  PROVE  KnowledgeInv'
<1>1. /\ pc'[r] \in {"infer", "answered"}
      /\ pc'[r] = "answered" => ctx'[r] = (UNION ss) \cup About(s, rec)
      /\ pc'[r] = "infer" => ctx'[r] = ctx[r]
      /\ \A q \in Requests \ {r} : pc'[q] = pc[q] /\ ctx'[q] = ctx[q]
  BY DEF Conclude, Goto, TypeOK
<1>2. DropLocals(r)
  BY DEF Conclude
<1>3. KnowledgeOf(r)'
  BY <1>1, <1>2, NothingHeld DEF KnowledgeInv, KnowledgeOf
<1>4. QED
  BY <1>1, <1>2, <1>3, NothingHeld, KnowledgeFrame DEF KnowledgeInv

(* The fold is begun with what the request knows.                          *)
LEMMA StartFoldKnows ==
  ASSUME TypeOK, KnowledgeInv, UNCHANGED <<items, asked>>, NEW r \in CacheUsers,
         NEW s, NEW ss, NEW rs, NEW rec, StartFold(r, s, ss, rs, rec),
         asked[r] \subseteq ((UNION ss) \cup About(s, rec)),
         ((UNION ss) \cup About(s, rec)) \subseteq StoredMessages(items)
  PROVE  KnowledgeInv'
<1>1. r \in Requests
  BY ConstantsAssumption
<1>2. /\ pc'[r] = "fold" /\ snap'[r] = s /\ sums'[r] = ss
      /\ recent'[r] = rec /\ chunk'[r] = NoChunk /\ ctx' = ctx
      /\ \A q \in Requests \ {r} :
           /\ pc'[q] = pc[q] /\ snap'[q] = snap[q] /\ sums'[q] = sums[q]
           /\ recent'[q] = recent[q] /\ chunk'[q] = chunk[q]
  BY <1>1 DEF StartFold, Goto, TypeOK, LocalsOK
<1>3. Known(r)' = (UNION ss) \cup About(s, rec)
  BY <1>2 DEF Known, NoChunk
<1>4. KnowledgeOf(r)'
  BY <1>1, <1>2, <1>3 DEF KnowledgeInv, KnowledgeOf
<1>5. QED
  BY <1>1, <1>2, <1>4, KnowledgeFrame DEF KnowledgeInv

(* Rows that speak for what the markers speak for are as good as markers:  *)
(* with the turns after the last marker they tell the whole conversation.  *)
LEMMA EvaluateKnows ==
  ASSUME TypeOK, CompactionInv, KnowledgeInv, NEW r \in Requests,
         ReadsFaithfully(r), Evaluate(r)
  PROVE  \E ss, rec :
           /\ asked[r] \subseteq ((UNION ss) \cup About(items, rec))
           /\ ((UNION ss) \cup About(items, rec)) \subseteq StoredMessages(items)
           /\ rec \subseteq DOMAIN items
           /\ \/ \E rs : r \in CacheUsers /\ StartFold(r, items, ss, rs, rec)
              \/ Conclude(r, items, ss, rec)
              \/ \E rs : \E split \in SplitPoints(items, rec) :
                   StartSummary(r, ss, rs, rec, split)
<1>1. pc[r] = "fetch" /\ items \in Seq(Item) /\ MarkersSound(items)
  BY DEF Evaluate, TypeOK, CompactionInv
<1>2. PICK rs \in CacheReads(r) :
        LET ss == IF rs # <<>> THEN SummarySet(rs) ELSE MarkerSummaries(items)
            rec == ItemsAfterLastMarker(items)
        IN  \/ FoldOrConclude(r, items, ss, rs, rec)
            \/ \E split \in SplitPoints(items, rec) :
                 StartSummary(r, ss, rs, rec, split)
  BY DEF Evaluate
<1> DEFINE ss == IF rs # <<>> THEN SummarySet(rs) ELSE MarkerSummaries(items)
           rec == ItemsAfterLastMarker(items)
<1>3. UNION ss = About(items, Markers(items))
  BY <1>1, WholeConversation DEF ReadsFaithfully
<1>4. /\ asked[r] \subseteq StoredMessages(items)
      /\ About(items, Markers(items)) \subseteq StoredMessages(items)
      /\ StoredMessages(items) \subseteq
           (About(items, Markers(items)) \cup About(items, rec))
      /\ About(items, rec) \subseteq StoredMessages(items)
      /\ rec \subseteq DOMAIN items
  BY <1>1, WholeConversation, StoredType DEF KnowledgeInv, KnowledgeOf
<1>5. \/ r \in CacheUsers /\ StartFold(r, items, ss, rs, rec)
      \/ Conclude(r, items, ss, rec)
      \/ \E split \in SplitPoints(items, rec) : StartSummary(r, ss, rs, rec, split)
  BY <1>2 DEF FoldOrConclude, StartFold
<1> HIDE DEF ss, rec
<1>6. /\ asked[r] \subseteq ((UNION ss) \cup About(items, rec))
      /\ ((UNION ss) \cup About(items, rec)) \subseteq StoredMessages(items)
  BY <1>3, <1>4
<1>7. QED
  BY <1>4, <1>5, <1>6

(* Between its statements a fold keeps what it knows, and it tells what the *)
(* summaries told that it replaces, whichever statement fails.             *)
LEMMA FoldKnows ==
  ASSUME KnowledgeInv, NEW r \in Requests, ReadsFaithfully(r),
         Fold(r) \/ InsertFold(r)
  PROVE  /\ UNCHANGED <<items, asked>>
         /\ pc[r] \in {"fold", "replace"}
         /\ \/ Fold(r) /\ DeleteRows(r)
            \/ \E ss : /\ Conclude(r, snap[r], ss, recent[r])
                       /\ (UNION ss) \cup About(snap[r], recent[r]) \subseteq Known(r)
                       /\ asked[r] \subseteq ((UNION ss) \cup About(snap[r], recent[r]))
<1>1. UNCHANGED <<items, asked>> /\ pc[r] \in {"fold", "replace"}
  BY DEF Fold, InsertFold
<1>2. CASE Fold(r) /\ DeleteRows(r)
  BY <1>1, <1>2
<1>3. ASSUME NEW ss, ss = {UNION SummarySet(rows[r])} \/ ss = sums[r],
             Conclude(r, snap[r], ss, recent[r])
      PROVE  /\ (UNION ss) \cup About(snap[r], recent[r]) \subseteq Known(r)
             /\ asked[r] \subseteq ((UNION ss) \cup About(snap[r], recent[r]))
  <2>1. UNION ss = UNION sums[r]
    BY <1>1, <1>3 DEF ReadsFaithfully
  <2>2. /\ Known(r) = (UNION sums[r]) \cup About(snap[r], recent[r])
        /\ asked[r] \subseteq Known(r)
    BY <1>1 DEF KnowledgeInv, KnowledgeOf, Known, NoChunk
  <2>3. QED
    BY <2>1, <2>2
<1>4. CASE ~(Fold(r) /\ DeleteRows(r))
  <2>1. PICK ss : /\ ss = {UNION SummarySet(rows[r])} \/ ss = sums[r]
                  /\ Conclude(r, snap[r], ss, recent[r])
    BY <1>4 DEF Fold, InsertFold, GoOnUnfolded
  <2>2. QED
    BY <1>1, <1>3, <2>1
<1>5. QED
  BY <1>2, <1>4

LEMMA KnowledgeInvStep ==
  ASSUME TypeOK, CompactionInv, KnowledgeInv,
         \A r \in Requests : ReadsFaithfully(r), [Next]_vars
  PROVE  KnowledgeInv'
<1>1. CASE UNCHANGED vars
  BY <1>1 DEF vars, locals, KnowledgeInv, KnowledgeOf, Known
<1>2. ASSUME NEW r \in Requests, Arrive(r) PROVE KnowledgeInv'
  <2>1. /\ pc'[r] \in {"probe", "lock"} /\ asked'[r] = StoredMessages(items)
        /\ \A q \in Requests \ {r} : pc'[q] = pc[q] /\ asked'[q] = asked[q]
        /\ UNCHANGED <<items, snap, sums, recent, chunk, ctx>>
    BY <1>2 DEF Arrive, Goto, locals, TypeOK
  <2>2. KnowledgeOf(r)'
    BY <2>1 DEF KnowledgeInv, KnowledgeOf, Known
  <2>3. QED
    BY <2>1, <2>2, KnowledgeFrame DEF KnowledgeInv
<1>3. ASSUME NEW r \in Requests, Probe(r) \/ Acquire(r) \/ Summarize(r)
      PROVE  KnowledgeInv'
  <2>1. /\ pc'[r] \in {"lock", "infer", "fetch", "mark"}
        /\ pc'[r] = "mark" => pc[r] = "summarize"
        /\ \A q \in Requests \ {r} : pc'[q] = pc[q]
        /\ UNCHANGED <<items, asked, snap, sums, recent, chunk, ctx>>
    BY <1>3 DEF Probe, Acquire, Summarize, Goto, locals, TypeOK
  <2>2. KnowledgeOf(r)'
    BY <2>1 DEF KnowledgeInv, KnowledgeOf, Known
  <2>3. QED
    BY <2>1, <2>2, KnowledgeFrame DEF KnowledgeInv
<1>4. ASSUME NEW r \in Requests, Evaluate(r) PROVE KnowledgeInv'
  <2>1. UNCHANGED <<items, asked>> /\ items \in Seq(Item)
    BY <1>4 DEF Evaluate, TypeOK
  <2>2. PICK ss, rec :
          /\ asked[r] \subseteq ((UNION ss) \cup About(items, rec))
          /\ ((UNION ss) \cup About(items, rec)) \subseteq StoredMessages(items)
          /\ rec \subseteq DOMAIN items
          /\ \/ \E rs : r \in CacheUsers /\ StartFold(r, items, ss, rs, rec)
             \/ Conclude(r, items, ss, rec)
             \/ \E rs : \E split \in SplitPoints(items, rec) :
                  StartSummary(r, ss, rs, rec, split)
    BY <1>4, EvaluateKnows
  <2>3. ASSUME NEW rs, r \in CacheUsers, StartFold(r, items, ss, rs, rec)
        PROVE  KnowledgeInv'
    BY <2>1, <2>2, <2>3, StartFoldKnows
  <2>4. CASE Conclude(r, items, ss, rec)
    BY <2>1, <2>2, <2>4, ConcludeKnows
  <2>5. ASSUME NEW rs, NEW split \in SplitPoints(items, rec),
               StartSummary(r, ss, rs, rec, split)
        PROVE  KnowledgeInv'
    <3>1. /\ pc'[r] = "summarize" /\ snap'[r] = items /\ sums'[r] = ss
          /\ recent'[r] = Keep(rec, split)
          /\ chunk'[r].about = About(items, Old(rec, split))
          /\ ctx' = ctx
          /\ \A q \in Requests \ {r} :
               /\ pc'[q] = pc[q] /\ snap'[q] = snap[q] /\ sums'[q] = sums[q]
               /\ recent'[q] = recent[q] /\ chunk'[q] = chunk[q]
      BY <2>5 DEF StartSummary, Goto, TypeOK, LocalsOK
    <3>2. Known(r)' = (UNION ss) \cup About(items, rec)
      BY <2>1, <2>2, <3>1, SplitKeepsAll DEF Known
    <3>3. KnowledgeOf(r)'
      BY <2>1, <2>2, <3>1, <3>2 DEF KnowledgeInv, KnowledgeOf
    <3>4. QED
      BY <2>1, <3>1, <3>3, KnowledgeFrame DEF KnowledgeInv
  <2>6. QED
    BY <2>2, <2>3, <2>4, <2>5
<1>5. ASSUME NEW r \in Requests, WriteMarker(r) PROVE KnowledgeInv'
  <2> DEFINE t == Append(items, MarkerItem(chunk[r]))
  <2>1. /\ pc[r] = "mark" /\ pc'[r] = "record" /\ items' = t
        /\ \A q \in Requests \ {r} : pc'[q] = pc[q]
        /\ UNCHANGED <<asked, snap, sums, recent, chunk, ctx>>
    BY <1>5 DEF WriteMarker, Goto, locals, TypeOK
  <2>2. chunk[r].about \subseteq StoredMessages(items)
    BY DEF KnowledgeInv, KnowledgeOf, Known
  <2>3. /\ MessagePositions(t) = MessagePositions(items)
        /\ \A i \in MessagePositions(t) : t[i] = items[i]
        /\ Markers(t) = Markers(items) \cup {Len(items) + 1}
        /\ \A i \in Markers(items) : t[i] = items[i]
        /\ t[Len(items) + 1].about = chunk[r].about
    <3>1. /\ items \in Seq(Item) /\ MarkerItem(chunk[r]) \in Item
          /\ MarkerItem(chunk[r]).kind = "marker"
          /\ MarkerItem(chunk[r]).about = chunk[r].about
      BY DEF TypeOK, LocalsOK, MarkerItem, Item
    <3>2. /\ t \in Seq(Item) /\ Len(t) = Len(items) + 1 /\ Len(items) \in Nat
          /\ DOMAIN t = 1 .. Len(items) + 1 /\ DOMAIN items = 1 .. Len(items)
          /\ \A i \in 1 .. Len(items) : t[i] = items[i]
          /\ t[Len(items) + 1] = MarkerItem(chunk[r])
      BY <3>1, AppendProperties, LenProperties
    <3> HIDE DEF t
    <3>3. QED
      BY <3>1, <3>2 DEF MessagePositions, Markers
  <2> HIDE DEF t
  <2>4. StoredMessages(t) = StoredMessages(items)
    BY <2>3 DEF StoredMessages, About
  <2>5. About(t, Markers(t)) \subseteq StoredMessages(t)
    BY <2>2, <2>3, <2>4 DEF KnowledgeInv, About
  <2>6. KnowledgeOf(r)'
    BY <2>1, <2>4 DEF KnowledgeInv, KnowledgeOf, Known
  <2>7. QED
    BY <2>1, <2>4, <2>5, <2>6, KnowledgeFrame
<1>6. ASSUME NEW r \in Requests, RecordChunk(r) PROVE KnowledgeInv'
  <2> DEFINE ss == sums[r] \cup {chunk[r].about}
             rs == Append(rows[r], chunk[r].about)
  <2>1. /\ UNCHANGED <<items, asked>> /\ pc[r] = "record"
        /\ FoldOrConclude(r, snap[r], ss, rs, recent[r])
    BY <1>6 DEF RecordChunk
  <2>2. (UNION ss) \cup About(snap[r], recent[r]) = Known(r)
    BY DEF Known
  <2>3. asked[r] \subseteq Known(r) /\ Known(r) \subseteq StoredMessages(items)
    BY <2>1 DEF KnowledgeInv, KnowledgeOf
  <2> HIDE DEF ss, rs
  <2>4. CASE Conclude(r, snap[r], ss, recent[r])
    BY <2>1, <2>2, <2>3, <2>4, ConcludeKnows
  <2>5. CASE StartFold(r, snap[r], ss, rs, recent[r])
    BY <2>1, <2>2, <2>3, <2>5, StartFoldKnows DEF StartFold
  <2>6. QED
    BY <2>1, <2>4, <2>5 DEF FoldOrConclude
<1>7. ASSUME NEW r \in Requests, Fold(r) \/ InsertFold(r) PROVE KnowledgeInv'
  <2>1. CASE Fold(r) /\ DeleteRows(r)
    <3>1. /\ pc[r] = "fold" /\ pc'[r] = "replace"
          /\ \A q \in Requests \ {r} : pc'[q] = pc[q]
          /\ UNCHANGED <<items, asked, snap, sums, recent, chunk, ctx>>
      BY <2>1 DEF Fold, DeleteRows, Goto, locals, TypeOK
    <3>2. KnowledgeOf(r)'
      BY <3>1 DEF KnowledgeInv, KnowledgeOf, Known
    <3>3. QED
      BY <3>1, <3>2, KnowledgeFrame DEF KnowledgeInv
  <2>2. Known(r) \subseteq StoredMessages(items)
    BY DEF KnowledgeInv, KnowledgeOf
  <2>3. QED
    BY <1>7, <2>1, <2>2, FoldKnows, ConcludeKnows
<1>8. ASSUME NEW r \in Requests, Infer(r) PROVE KnowledgeInv'
  <2>1. /\ pc'[r] = "answered" /\ ctx'[r] = StoredMessages(items)
        /\ \A q \in Requests \ {r} : pc'[q] = pc[q] /\ ctx'[q] = ctx[q]
        /\ UNCHANGED <<items, asked, snap, sums, recent, chunk>>
    BY <1>8 DEF Infer, Goto, locals, TypeOK
  <2>2. KnowledgeOf(r)'
    BY <2>1 DEF KnowledgeInv, KnowledgeOf, Known
  <2>3. QED
    BY <2>1, <2>2, KnowledgeFrame DEF KnowledgeInv
<1>9. ASSUME NEW r \in Requests, StoreTurn(r) PROVE KnowledgeInv'
  <2>1. /\ pc[r] = "answered" /\ pc'[r] = "done"
        /\ \A q \in Requests \ {r} : pc'[q] = pc[q]
        /\ UNCHANGED <<asked, snap, sums, recent, chunk, ctx>>
    BY <1>9 DEF StoreTurn, Goto, locals, TypeOK
  <2>2. /\ StoredMessages(items) \subseteq StoredMessages(items')
        /\ About(items', Markers(items')) = About(items, Markers(items))
    BY <1>9, TurnGrows DEF StoreTurn, TypeOK
  <2>3. KnowledgeOf(r)'
    BY <2>1, <2>2 DEF KnowledgeInv, KnowledgeOf, Known
  <2>4. QED
    BY <2>1, <2>2, <2>3, KnowledgeFrame DEF KnowledgeInv
<1>10. ASSUME NEW r \in Requests, Abort(r) PROVE KnowledgeInv'
  <2>1. /\ pc'[r] = "failed" /\ UNCHANGED <<items, asked, ctx>> /\ DropLocals(r)
        /\ \A q \in Requests \ {r} : pc'[q] = pc[q]
    BY <1>10 DEF Abort, Goto, TypeOK
  <2>2. KnowledgeOf(r)'
    BY <2>1, NothingHeld DEF KnowledgeInv, KnowledgeOf
  <2>3. QED
    BY <2>1, <2>2, NothingHeld, KnowledgeFrame DEF KnowledgeInv
<1>11. QED
  BY <1>1, <1>2, <1>3, <1>4, <1>5, <1>6, <1>7, <1>8, <1>9, <1>10 DEF Next

(* Without a cache there is nothing to read or to fold.                    *)
LEMMA NothingToRead ==
  ASSUME CacheUsers = {}, KnowledgeInv
  PROVE  \A r \in Requests : ReadsFaithfully(r)
BY DEF ReadsFaithfully, CacheReads, KnowledgeInv, KnowledgeOf

LEMMA InitKnowledge == Init => CompactionInv /\ KnowledgeInv
<1> SUFFICES ASSUME Init PROVE CompactionInv /\ KnowledgeInv
  OBVIOUS
<1>1. /\ items = <<>> /\ DOMAIN items = {}
      /\ \A r \in Requests :
           /\ snap[r] = <<>> /\ sums[r] = {} /\ recent[r] = {}
           /\ chunk[r] = NoChunk /\ ctx[r] = {} /\ asked[r] = {}
           /\ pc[r] = "idle"
  BY DEF Init
<1>2. CompactionInv
  BY <1>1 DEF CompactionInv, MarkersSound, Markers, Prefix
<1>3. KnowledgeInv
  BY <1>1 DEF KnowledgeInv, KnowledgeOf, Known, NoChunk, About, Markers,
     StoredMessages
<1>4. QED
  BY <1>2, <1>3

(* Without a cache, whatever fails and whoever races, in however many      *)
(* workers: whoever is answered was told about every message stored when   *)
(* the request arrived (LCORE-4219).                                       *)
THEOREM MarkersLoseNothing ==
  ASSUME CacheUsers = {}
  PROVE  Spec => []ContextComplete
<1>1. Init => CompactionInv /\ KnowledgeInv
  BY InitKnowledge
<1>2. KnowledgeInv => ContextComplete
  BY DEF KnowledgeInv, KnowledgeOf, ContextComplete
<1>3. TypeOK /\ CompactionInv /\ KnowledgeInv /\ [Next]_vars
        => CompactionInv' /\ KnowledgeInv'
  BY CompactionInvStep, KnowledgeInvStep, NothingToRead
<1>4. QED
  BY <1>1, <1>2, <1>3, TypeCorrect, PTL DEF Spec

-----------------------------------------------------------------------------
(* In marker-only mode compaction implements FullHistory.                  *)

(* A step that stores nothing, tells nothing and leaves every request in   *)
(* its phase is not seen by the abstract specification.                    *)
LEMMA Invisible ==
  ASSUME TypeOK, NEW r \in Requests, NEW from, NEW to,
         pc[r] = from, Goto(r, to), Phase(from) = Phase(to),
         StoredMessages(items') = StoredMessages(items),
         UNCHANGED <<asked, ctx>>
  PROVE  UNCHANGED Abstract!vars
<1>1. \A q \in Requests : Phase(pc'[q]) = Phase(pc[q])
  BY DEF Goto, TypeOK
<1>2. [q \in Requests |-> Phase(pc'[q])] = [q \in Requests |-> Phase(pc[q])]
  BY <1>1
<1>3. QED
  BY <1>2 DEF Abstract!vars

(* Moving from one point to another moves the abstract phase.              *)
LEMMA Moves ==
  ASSUME TypeOK, NEW r \in Requests, NEW from, NEW to,
         pc[r] = from, Goto(r, to)
  PROVE  Abstract!Move(r, Phase(from), Phase(to))
<1>1. /\ pc'[r] = to /\ \A q \in Requests \ {r} : pc'[q] = pc[q]
  BY DEF Goto, TypeOK
<1> DEFINE p == [q \in Requests |-> Phase(pc[q])]
           pp == [q \in Requests |-> Phase(pc'[q])]
<1>2. pp = [p EXCEPT ![r] = Phase(to)] /\ p[r] = Phase(from)
  BY <1>1
<1>3. QED
  BY <1>2 DEF Abstract!Move

(* The end of apply_compaction answers, or leaves inference to OGX.        *)
LEMMA ConcludeAnswers ==
  ASSUME TypeOK, NEW r \in Requests, NEW s, NEW ss, NEW rec,
         Conclude(r, s, ss, rec), UNCHANGED <<items, asked>>,
         pc[r] \in {"fetch", "record", "fold", "replace"},
         asked[r] \subseteq ((UNION ss) \cup About(s, rec)),
         ((UNION ss) \cup About(s, rec)) \subseteq StoredMessages(items)
  PROVE  [Abstract!Next]_(Abstract!vars)
<1>1. CASE ss = {}
  <2>1. Goto(r, "infer") /\ UNCHANGED ctx
    BY <1>1 DEF Conclude
  <2>2. Phase(pc[r]) = Phase("infer")
    BY DEF Phase
  <2>3. QED
    BY <2>1, <2>2, Invisible
<1>2. CASE ss # {}
  <2>1. Goto(r, "answered")
        /\ ctx' = [ctx EXCEPT ![r] = (UNION ss) \cup About(s, rec)]
    BY <1>2 DEF Conclude
  <2>2. Phase(pc[r]) = "asked" /\ Phase("answered") = "answered"
    BY DEF Phase
  <2>3. Abstract!Move(r, "asked", "answered")
    BY <2>1, <2>2, Moves
  <2>4. Abstract!Answer(r)
    BY <2>1, <2>3 DEF Abstract!Answer
  <2>5. QED
    BY <2>4 DEF Abstract!Next
<1>3. QED
  BY <1>1, <1>2

(* A marker is not a message: writing one stores nothing.                   *)
LEMMA MarkerIsNoMessage ==
  ASSUME NEW s \in Seq(Item), NEW m \in Item, m.kind = "marker"
  PROVE  StoredMessages(Append(s, m)) = StoredMessages(s)
<1> DEFINE t == Append(s, m)
<1>1. /\ t \in Seq(Item) /\ Len(t) = Len(s) + 1 /\ Len(s) \in Nat
      /\ DOMAIN t = 1 .. Len(s) + 1 /\ DOMAIN s = 1 .. Len(s)
      /\ \A i \in 1 .. Len(s) : t[i] = s[i]
      /\ t[Len(s) + 1] = m
  BY AppendProperties, LenProperties
<1> HIDE DEF t
<1>2. /\ MessagePositions(t) = MessagePositions(s)
      /\ \A i \in MessagePositions(t) : t[i] = s[i]
  BY <1>1 DEF MessagePositions
<1>3. StoredMessages(t) = StoredMessages(s)
  BY <1>2 DEF StoredMessages, About
<1>4. QED
  BY <1>3 DEF t

LEMMA RefinesInit == Init => Abstract!Init
<1> SUFFICES ASSUME Init PROVE Abstract!Init
  OBVIOUS
<1>1. StoredMessages(items) = {}
  BY DEF Init, StoredMessages, About, MessagePositions
<1>2. \A r \in Requests : Phase(pc[r]) = "new"
  BY DEF Init, Phase
<1>3. QED
  BY <1>1, <1>2 DEF Init, Abstract!Init

LEMMA RefinesStep ==
  ASSUME TypeOK, CompactionInv, KnowledgeInv,
         \A r \in Requests : ReadsFaithfully(r), [Next]_vars
  PROVE  [Abstract!Next]_(Abstract!vars)
<1>1. CASE UNCHANGED vars
  BY <1>1 DEF vars, Abstract!vars
<1>2. ASSUME NEW r \in Requests, Arrive(r) PROVE [Abstract!Next]_(Abstract!vars)
  <2>1. PICK to \in {"probe", "lock"} : Goto(r, to)
    BY <1>2 DEF Arrive
  <2>2. /\ pc[r] = "idle" /\ UNCHANGED <<items, ctx>>
        /\ asked' = [asked EXCEPT ![r] = StoredMessages(items)]
    BY <1>2 DEF Arrive
  <2>3. Phase("idle") = "new" /\ Phase(to) = "asked"
    BY DEF Phase
  <2>4. Abstract!Move(r, "new", "asked")
    BY <2>1, <2>2, <2>3, Moves
  <2>5. Abstract!Ask(r)
    BY <2>2, <2>4 DEF Abstract!Ask
  <2>6. QED
    BY <2>5 DEF Abstract!Next
<1>3. ASSUME NEW r \in Requests, Probe(r) \/ Acquire(r) \/ Summarize(r)
      PROVE  [Abstract!Next]_(Abstract!vars)
  <2>1. PICK to \in {"lock", "infer", "fetch", "mark"} : Goto(r, to)
    BY <1>3 DEF Probe, Acquire, Summarize
  <2>2. /\ pc[r] \in {"probe", "lock", "summarize"}
        /\ UNCHANGED <<items, asked, ctx>>
    BY <1>3 DEF Probe, Acquire, Summarize
  <2>3. Phase(pc[r]) = "asked" /\ Phase(to) = "asked"
    BY <2>2 DEF Phase
  <2>4. QED
    BY <2>1, <2>2, <2>3, Invisible
<1>4. ASSUME NEW r \in Requests, Evaluate(r) PROVE [Abstract!Next]_(Abstract!vars)
  <2>1. UNCHANGED <<items, asked>> /\ pc[r] = "fetch"
    BY <1>4 DEF Evaluate
  <2>2. PICK ss, rec :
          /\ asked[r] \subseteq ((UNION ss) \cup About(items, rec))
          /\ ((UNION ss) \cup About(items, rec)) \subseteq StoredMessages(items)
          /\ rec \subseteq DOMAIN items
          /\ \/ \E rs : r \in CacheUsers /\ StartFold(r, items, ss, rs, rec)
             \/ Conclude(r, items, ss, rec)
             \/ \E rs : \E split \in SplitPoints(items, rec) :
                  StartSummary(r, ss, rs, rec, split)
    BY <1>4, EvaluateKnows
  <2>3. CASE Conclude(r, items, ss, rec)
    BY <2>1, <2>2, <2>3, ConcludeAnswers
  <2>4. ASSUME NEW rs, NEW split,
               StartFold(r, items, ss, rs, rec) \/ StartSummary(r, ss, rs, rec, split)
        PROVE  [Abstract!Next]_(Abstract!vars)
    <3>1. PICK to \in {"summarize", "fold"} : Goto(r, to) /\ UNCHANGED ctx
      BY <2>4 DEF StartSummary, StartFold
    <3>2. Phase("fetch") = Phase(to)
      BY DEF Phase
    <3>3. QED
      BY <2>1, <3>1, <3>2, Invisible
  <2>5. QED
    BY <2>2, <2>3, <2>4
<1>5. ASSUME NEW r \in Requests, WriteMarker(r)
      PROVE  [Abstract!Next]_(Abstract!vars)
  <2>1. /\ pc[r] = "mark" /\ Goto(r, "record") /\ UNCHANGED <<asked, ctx>>
        /\ items' = Append(items, MarkerItem(chunk[r]))
    BY <1>5 DEF WriteMarker, locals
  <2>2. Phase("mark") = Phase("record")
    BY DEF Phase
  <2>3. /\ items \in Seq(Item) /\ MarkerItem(chunk[r]) \in Item
        /\ MarkerItem(chunk[r]).kind = "marker"
    BY DEF TypeOK, LocalsOK, MarkerItem, Item
  <2>4. StoredMessages(items') = StoredMessages(items)
    BY <2>1, <2>3, MarkerIsNoMessage
  <2>5. QED
    BY <2>1, <2>2, <2>4, Invisible
<1>6. ASSUME NEW r \in Requests, RecordChunk(r)
      PROVE  [Abstract!Next]_(Abstract!vars)
  <2> DEFINE ss == sums[r] \cup {chunk[r].about}
             rs == Append(rows[r], chunk[r].about)
  <2>1. /\ UNCHANGED <<items, asked>> /\ pc[r] = "record"
        /\ FoldOrConclude(r, snap[r], ss, rs, recent[r])
    BY <1>6 DEF RecordChunk
  <2>2. (UNION ss) \cup About(snap[r], recent[r]) = Known(r)
    BY DEF Known
  <2>3. asked[r] \subseteq Known(r) /\ Known(r) \subseteq StoredMessages(items)
    BY <2>1 DEF KnowledgeInv, KnowledgeOf
  <2> HIDE DEF ss, rs
  <2>4. CASE Conclude(r, snap[r], ss, recent[r])
    BY <2>1, <2>2, <2>3, <2>4, ConcludeAnswers
  <2>5. CASE StartFold(r, snap[r], ss, rs, recent[r])
    <3>1. Goto(r, "fold") /\ UNCHANGED ctx
      BY <2>5 DEF StartFold
    <3>2. Phase("record") = Phase("fold")
      BY DEF Phase
    <3>3. QED
      BY <2>1, <3>1, <3>2, Invisible
  <2>6. QED
    BY <2>1, <2>4, <2>5 DEF FoldOrConclude
<1>7. ASSUME NEW r \in Requests, Fold(r) \/ InsertFold(r)
      PROVE  [Abstract!Next]_(Abstract!vars)
  <2>1. UNCHANGED <<items, asked>> /\ pc[r] \in {"fold", "replace"}
    BY <1>7, FoldKnows
  <2>2. CASE Fold(r) /\ DeleteRows(r)
    <3>1. pc[r] = "fold" /\ Goto(r, "replace") /\ UNCHANGED ctx
      BY <2>2 DEF Fold, DeleteRows
    <3>2. Phase("fold") = Phase("replace")
      BY DEF Phase
    <3>3. QED
      BY <2>1, <3>1, <3>2, Invisible
  <2>3. Known(r) \subseteq StoredMessages(items)
    BY DEF KnowledgeInv, KnowledgeOf
  <2>4. QED
    BY <1>7, <2>1, <2>2, <2>3, FoldKnows, ConcludeAnswers
<1>8. ASSUME NEW r \in Requests, Infer(r) PROVE [Abstract!Next]_(Abstract!vars)
  <2>1. /\ pc[r] = "infer" /\ Goto(r, "answered") /\ UNCHANGED <<items, asked>>
        /\ ctx' = [ctx EXCEPT ![r] = StoredMessages(items)]
        /\ asked[r] \subseteq StoredMessages(items)
    BY <1>8 DEF Infer, KnowledgeInv, KnowledgeOf
  <2>2. Phase("infer") = "asked" /\ Phase("answered") = "answered"
    BY DEF Phase
  <2>3. Abstract!Move(r, "asked", "answered")
    BY <2>1, <2>2, Moves
  <2>4. Abstract!Answer(r)
    BY <2>1, <2>3 DEF Abstract!Answer
  <2>5. QED
    BY <2>4 DEF Abstract!Next
<1>9. ASSUME NEW r \in Requests, StoreTurn(r) PROVE [Abstract!Next]_(Abstract!vars)
  <2>1. PICK shape \in TurnShapes : items' = items \o TurnItems(r, shape)
    BY <1>9 DEF StoreTurn
  <2>2. pc[r] = "answered" /\ Goto(r, "done") /\ UNCHANGED <<asked, ctx>>
    BY <1>9 DEF StoreTurn
  <2>3. Phase("answered") = "answered" /\ Phase("done") = "stored"
    BY DEF Phase
  <2>4. Abstract!Move(r, "answered", "stored")
    BY <2>2, <2>3, Moves
  <2>5. /\ StoredMessages(items) \subseteq StoredMessages(items')
        /\ StoredMessages(items') \ StoredMessages(items) \subseteq
             {r} \X (Nat \ {0})
    BY <2>1, TurnGrows DEF TypeOK
  <2>6. Abstract!Store(r)
    BY <2>2, <2>4, <2>5 DEF Abstract!Store
  <2>7. QED
    BY <2>6 DEF Abstract!Next
<1>10. ASSUME NEW r \in Requests, Abort(r) PROVE [Abstract!Next]_(Abstract!vars)
  <2>1. pc[r] \in Points /\ Goto(r, "failed") /\ UNCHANGED <<items, asked, ctx>>
    BY <1>10, ConstantsAssumption DEF Abort
  <2>2. Phase(pc[r]) \in {"asked", "answered"} /\ Phase("failed") = "gone"
    BY <2>1 DEF Phase, Points
  <2>3. Abstract!Move(r, Phase(pc[r]), "gone")
    BY <2>1, <2>2, Moves
  <2>4. Abstract!GiveUp(r)
    BY <2>1, <2>2, <2>3 DEF Abstract!GiveUp
  <2>5. QED
    BY <2>4 DEF Abstract!Next
<1>11. QED
  BY <1>1, <1>2, <1>3, <1>4, <1>5, <1>6, <1>7, <1>8, <1>9, <1>10 DEF Next

(* Without a cache, compaction implements the conversation that replays    *)
(* its whole history: it never tells the model less or more than was       *)
(* stored, and stores only the turn of the request that was answered.      *)
THEOREM MarkersImplementFullHistory ==
  ASSUME CacheUsers = {}
  PROVE  Spec => ImplementsFullHistory
<1>1. Init => CompactionInv /\ KnowledgeInv
  BY InitKnowledge
<1>2. Init => Abstract!Init
  BY RefinesInit
<1>3. TypeOK /\ CompactionInv /\ KnowledgeInv /\ [Next]_vars
        => CompactionInv' /\ KnowledgeInv'
  BY CompactionInvStep, KnowledgeInvStep, NothingToRead
<1>4. TypeOK /\ CompactionInv /\ KnowledgeInv /\ [Next]_vars
        => [Abstract!Next]_(Abstract!vars)
  BY RefinesStep, NothingToRead
<1>5. QED
  BY <1>1, <1>2, <1>3, <1>4, TypeCorrect, PTL
     DEF Spec, ImplementsFullHistory, Abstract!Spec

-----------------------------------------------------------------------------
(* The lock is never leaked: the safety half of EveryRequestEnds.          *)

InSection(r) ==
  pc[r] \in {"fetch", "summarize", "mark", "record", "fold", "replace"}

(* A request holds the lock of its own worker, from Acquire to the end of  *)
(* compaction or to its failure, and no other.                             *)
LockFollowsSection ==
  \A w \in Workers, r \in Requests :
    holder[w] = r <=> w = WorkerOf[r] /\ InSection(r)

LEMMA LockUndisturbed ==
  ASSUME LockFollowsSection, holder' = holder,
         \A q \in Requests : InSection(q)' <=> InSection(q)
  PROVE  LockFollowsSection'
BY DEF LockFollowsSection

(* Whoever leaves the section with its lock frees that lock alone.         *)
LEMMA LockReleased ==
  ASSUME TypeOK, LockFollowsSection, NEW r \in Requests,
         InSection(r), Release(r), ~InSection(r)',
         \A q \in Requests \ {r} : InSection(q)' <=> InSection(q)
  PROVE  LockFollowsSection'
<1>1. WorkerOf[r] \in Workers /\ holder[WorkerOf[r]] = r
  BY ConstantsAssumption DEF LockFollowsSection
<1>2. \A w \in Workers :
        holder'[w] = IF w = WorkerOf[r] THEN NoRequest ELSE holder[w]
  BY DEF Release, TypeOK
<1>3. ASSUME NEW w \in Workers, NEW q \in Requests
      PROVE  holder'[w] = q <=> w = WorkerOf[q] /\ InSection(q)'
  <2>1. CASE w = WorkerOf[r]
    BY <1>1, <1>2, <2>1, ConstantsAssumption DEF LockFollowsSection
  <2>2. CASE w # WorkerOf[r]
    BY <1>2, <2>2 DEF LockFollowsSection
  <2>3. QED
    BY <2>1, <2>2
<1>4. QED
  BY <1>3 DEF LockFollowsSection

LEMMA LockAfterConclude ==
  ASSUME TypeOK, LockFollowsSection, NEW r \in Requests, InSection(r),
         NEW s, NEW ss, NEW rec, Conclude(r, s, ss, rec)
  PROVE  LockFollowsSection'
<1>1. /\ pc'[r] \in {"infer", "answered"} /\ Release(r)
      /\ \A q \in Requests \ {r} : pc'[q] = pc[q]
  BY DEF Conclude, Goto, TypeOK
<1>2. QED
  BY <1>1, LockReleased DEF InSection

LEMMA LockAfterFoldOrConclude ==
  ASSUME TypeOK, LockFollowsSection, NEW r \in Requests, InSection(r),
         NEW s, NEW ss, NEW rs, NEW rec, FoldOrConclude(r, s, ss, rs, rec)
  PROVE  LockFollowsSection'
<1>1. CASE StartFold(r, s, ss, rs, rec)
  <2>1. /\ pc'[r] = "fold" /\ holder' = holder
        /\ \A q \in Requests \ {r} : pc'[q] = pc[q]
    BY <1>1 DEF StartFold, Goto, TypeOK
  <2>2. QED
    BY <2>1, LockUndisturbed DEF InSection
<1>2. QED
  BY <1>1, LockAfterConclude DEF FoldOrConclude

LEMMA LockFollowsStep ==
  ASSUME TypeOK, LockFollowsSection, [Next]_vars
  PROVE  LockFollowsSection'
<1>1. CASE UNCHANGED vars
  BY <1>1 DEF vars, LockFollowsSection, InSection
<1>2. ASSUME NEW r \in Requests, Arrive(r) \/ Probe(r) \/ Infer(r) \/ StoreTurn(r)
      PROVE  LockFollowsSection'
  <2>1. /\ ~InSection(r)' /\ ~InSection(r) /\ holder' = holder
        /\ \A q \in Requests \ {r} : pc'[q] = pc[q]
    BY <1>2 DEF Arrive, Probe, Infer, StoreTurn, Goto, TypeOK, InSection
  <2>2. QED
    BY <2>1, LockUndisturbed DEF InSection
<1>3. ASSUME NEW r \in Requests, Summarize(r) \/ WriteMarker(r)
      PROVE  LockFollowsSection'
  <2>1. /\ InSection(r)' /\ InSection(r) /\ holder' = holder
        /\ \A q \in Requests \ {r} : pc'[q] = pc[q]
    BY <1>3 DEF Summarize, WriteMarker, Goto, TypeOK, InSection
  <2>2. QED
    BY <2>1, LockUndisturbed DEF InSection
<1>4. ASSUME NEW r \in Requests, Acquire(r) PROVE LockFollowsSection'
  <2>1. /\ pc[r] = "lock" /\ pc'[r] = "fetch" /\ holder[WorkerOf[r]] = NoRequest
        /\ \A q \in Requests \ {r} : pc'[q] = pc[q]
        /\ \A w \in Workers :
             holder'[w] = IF w = WorkerOf[r] THEN r ELSE holder[w]
    BY <1>4 DEF Acquire, Goto, TypeOK
  <2>2. \A q \in Requests : WorkerOf[q] = WorkerOf[r] => ~InSection(q)
    BY <2>1, ConstantsAssumption DEF LockFollowsSection
  <2>3. ASSUME NEW w \in Workers, NEW q \in Requests
        PROVE  holder'[w] = q <=> w = WorkerOf[q] /\ InSection(q)'
    <3>1. CASE q = r
      BY <2>1, <2>2, <3>1 DEF LockFollowsSection, InSection
    <3>2. CASE q # r
      BY <2>1, <2>2, <3>2 DEF LockFollowsSection, InSection
    <3>3. QED
      BY <3>1, <3>2
  <2>4. QED
    BY <2>3 DEF LockFollowsSection
<1>5. ASSUME NEW r \in Requests, Evaluate(r) PROVE LockFollowsSection'
  <2>1. InSection(r)
    BY <1>5 DEF Evaluate, InSection
  <2>2. ASSUME NEW ss, NEW rs, NEW rec, NEW split, StartSummary(r, ss, rs, rec, split)
        PROVE  LockFollowsSection'
    <3>1. /\ pc'[r] = "summarize" /\ holder' = holder
          /\ \A q \in Requests \ {r} : pc'[q] = pc[q]
      BY <2>2 DEF StartSummary, Goto, TypeOK
    <3>2. QED
      BY <2>1, <3>1, LockUndisturbed DEF InSection
  <2>3. QED
    BY <1>5, <2>1, <2>2, LockAfterFoldOrConclude DEF Evaluate
<1>6. ASSUME NEW r \in Requests, RecordChunk(r) PROVE LockFollowsSection'
  <2>1. InSection(r)
    BY <1>6 DEF RecordChunk, InSection
  <2>2. QED
    BY <1>6, <2>1, LockAfterFoldOrConclude DEF RecordChunk
<1>7. ASSUME NEW r \in Requests, Fold(r) \/ InsertFold(r)
      PROVE  LockFollowsSection'
  <2>1. InSection(r)
    BY <1>7 DEF Fold, InsertFold, InSection
  <2>2. CASE DeleteRows(r)
    <3>1. /\ pc'[r] = "replace" /\ holder' = holder
          /\ \A q \in Requests \ {r} : pc'[q] = pc[q]
      BY <2>2 DEF DeleteRows, Goto, TypeOK
    <3>2. QED
      BY <2>1, <3>1, LockUndisturbed DEF InSection
  <2>3. QED
    BY <1>7, <2>1, <2>2, LockAfterConclude DEF Fold, InsertFold, GoOnUnfolded
<1>8. ASSUME NEW r \in Requests, Abort(r) PROVE LockFollowsSection'
  <2>1. /\ ~InSection(r)' /\ \A q \in Requests \ {r} : pc'[q] = pc[q]
    BY <1>8 DEF Abort, Goto, TypeOK, InSection
  <2>2. CASE InSection(r)
    <3>1. holder[WorkerOf[r]] = r
      BY <2>2, ConstantsAssumption DEF LockFollowsSection
    <3>2. Release(r)
      BY <1>8, <3>1 DEF Abort
    <3>3. QED
      BY <2>1, <2>2, <3>2, LockReleased DEF InSection
  <2>3. CASE ~InSection(r)
    <3>1. holder[WorkerOf[r]] # r
      BY <2>3, ConstantsAssumption DEF LockFollowsSection
    <3>2. holder' = holder
      BY <1>8, <3>1 DEF Abort
    <3>3. QED
      BY <2>1, <2>3, <3>2, LockUndisturbed DEF InSection
  <2>4. QED
    BY <2>2, <2>3
<1>9. QED
  BY <1>1, <1>2, <1>3, <1>4, <1>5, <1>6, <1>7, <1>8 DEF Next

(* _conversation_lock is released however compaction ends, by the request  *)
(* that took it and by nobody else, in any number of workers: whoever waits*)
(* for it waits for a request that is compacting and can go on.            *)
THEOREM LockIsNeverLeaked == Spec => []LockFollowsSection
<1>1. Init => LockFollowsSection
  BY ConstantsAssumption DEF Init, LockFollowsSection, InSection
<1>2. TypeOK /\ LockFollowsSection /\ [Next]_vars => LockFollowsSection'
  BY LockFollowsStep
<1>3. QED
  BY <1>1, <1>2, TypeCorrect, PTL DEF Spec
=============================================================================
