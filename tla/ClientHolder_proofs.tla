------------------------- MODULE ClientHolder_proofs -------------------------
(***************************************************************************)
(* Proofs about the Azure token and the held client, for any requests and  *)
(* readiness checks.                                                       *)
(***************************************************************************)
EXTENDS ClientHolder, TLAPS

\* A request with a client in hand took it when the manager had began[r], and
\* the token of the manager never goes back.
TakenFromManager ==
  ~library /\ based =>
    \A r \in Requests :
      phase[r] \in {"preparing", "calling"} => carried[r] >= began[r]

\* In service mode no client is initialized across an await, and it is the
\* fresh token that is being installed in library mode.
InitializingFresh ==
  \A r \in Requests : phase[r] = "initializing" =>
    library /\ based /\ fresh /\ carried[r] = token

BeganBefore == \A r \in Requests : began[r] <= token

ReloadsLibrary == \A p \in Probes : probe[p] = "reloading" => library

HolderInv ==
  /\ TypeOK
  /\ BeganBefore
  /\ ReloadsLibrary
  /\ ServiceHolderCurrent
  /\ TakenFromManager
  /\ LibraryHolderCurrent
  /\ OneUpdateAtATime
  /\ InitializingFresh

LEMMA HolderInit == Init => HolderInv
<1> SUFFICES ASSUME Init PROVE HolderInv
  OBVIOUS
<1>1. TypeOK
  BY DEF Init, TypeOK
<1>2. \A r \in Requests : phase[r] = "idle"
  BY DEF Init
<1>3. ReloadsLibrary /\ BeganBefore
  BY DEF Init, ReloadsLibrary, BeganBefore
<1>4. holder = token
  BY DEF Init
<1>5. QED
  BY <1>1, <1>2, <1>3, <1>4
     DEF HolderInv, ServiceHolderCurrent, TakenFromManager,
         LibraryHolderCurrent, OneUpdateAtATime, InitializingFresh
-----------------------------------------------------------------------------
LEMMA TypesStep == TypeOK /\ [Next]_vars => TypeOK'
<1> SUFFICES ASSUME TypeOK, [Next]_vars PROVE TypeOK'
  OBVIOUS
<1>1. ASSUME NEW r \in Requests, TakeClient(r) PROVE TypeOK'
  BY <1>1 DEF TypeOK, TakeClient, manager
<1>2. ASSUME NEW r \in Requests, CallAsPrepared(r) PROVE TypeOK'
  BY <1>2 DEF TypeOK, CallAsPrepared, Call, manager
<1>3. ASSUME NEW r \in Requests, Refresh(r) PROVE TypeOK'
  <2>1. token' \in Nat /\ fresh' \in BOOLEAN
    BY <1>3 DEF TypeOK, Refresh
  <2>2. CASE AtOnce /\ based
    BY <1>3, <2>1, <2>2 DEF TypeOK, Refresh, Call, Install
  <2>3. CASE AtOnce /\ ~based
    BY <1>3, <2>1, <2>3 DEF TypeOK, Refresh, Call
  <2>4. CASE ~AtOnce
    BY <1>3, <2>1, <2>4 DEF TypeOK, Refresh
  <2>5. QED
    BY <2>2, <2>3, <2>4
<1>4. ASSUME NEW r \in Requests, Initialized(r) PROVE TypeOK'
  BY <1>4 DEF TypeOK, Initialized, Call, Install, manager
<1>5. ASSUME NEW r \in Requests, InitializeFails(r) PROVE TypeOK'
  BY <1>5 DEF TypeOK, InitializeFails, manager
<1>6. ASSUME NEW r \in Requests, End(r) PROVE TypeOK'
  BY <1>6 DEF TypeOK, End, manager
<1>7. ASSUME NEW p \in Probes, Reload(p) \/ Reloaded(p) \/ ReloadFails(p)
      PROVE  TypeOK'
  <2>1. CASE Reload(p)
    BY <2>1 DEF TypeOK, Reload, manager
  <2>2. CASE Reloaded(p)
    BY <2>2 DEF TypeOK, Reloaded, manager
  <2>3. CASE ReloadFails(p)
    BY <2>3 DEF TypeOK, ReloadFails, manager
  <2>4. QED
    BY <1>7, <2>1, <2>2, <2>3
<1>8. CASE Expire
  BY <1>8 DEF TypeOK, Expire
<1>9. CASE UNCHANGED vars
  BY <1>9 DEF TypeOK, vars, manager
<1>10. QED
  BY <1>1, <1>2, <1>3, <1>4, <1>5, <1>6, <1>7, <1>8, <1>9 DEF Next

(* A step of a request that neither refreshes nor installs keeps the       *)
(* relation between the manager and the holder.                            *)
LEMMA RequestStep ==
  ASSUME HolderInv, TypeOK', NEW r \in Requests,
         TakeClient(r) \/ CallAsPrepared(r) \/ InitializeFails(r) \/ End(r)
  PROVE  HolderInv'
<1> USE DEF HolderInv, TypeOK, BeganBefore, ReloadsLibrary, manager, Call
<1>1. ServiceHolderCurrent'
  BY DEF TakeClient, CallAsPrepared, InitializeFails, End, ServiceHolderCurrent
<1>2. TakenFromManager'
  <2>1. CASE TakeClient(r)
    BY <2>1 DEF TakeClient, ServiceHolderCurrent, TakenFromManager
  <2>2. CASE CallAsPrepared(r)
    BY <2>2 DEF CallAsPrepared, TakenFromManager
  <2>3. CASE InitializeFails(r)
    BY <2>3 DEF InitializeFails, TakenFromManager
  <2>4. CASE End(r)
    BY <2>4 DEF End, TakenFromManager
  <2>5. QED
    BY <2>1, <2>2, <2>3, <2>4
<1>3. LibraryHolderCurrent'
  BY DEF TakeClient, CallAsPrepared, InitializeFails, End, LibraryHolderCurrent
<1>4. OneUpdateAtATime' /\ InitializingFresh'
  BY DEF TakeClient, CallAsPrepared, InitializeFails, End, OneUpdateAtATime,
         InitializingFresh
<1>5. ReloadsLibrary' /\ BeganBefore'
  BY DEF TakeClient, CallAsPrepared, InitializeFails, End
<1>6. QED
  BY <1>1, <1>2, <1>3, <1>4, <1>5

(* A token is acquired: nobody was initializing a client, because whoever  *)
(* does has a fresh token.                                                 *)
LEMMA RefreshStep ==
  ASSUME HolderInv, TypeOK', NEW r \in Requests, Refresh(r)
  PROVE  HolderInv'
<1> USE DEF HolderInv, TypeOK, BeganBefore, ReloadsLibrary, Call, Install
<1>1. \A q \in Requests : phase[q] # "initializing"
  BY DEF Refresh, NeedsRefresh, InitializingFresh
<1>2. CASE AtOnce
  <2>1. \A q \in Requests : phase'[q] # "initializing"
    BY <1>1, <1>2 DEF Refresh
  <2>2. ServiceHolderCurrent' /\ LibraryHolderCurrent'
    BY <1>1, <1>2 DEF Refresh, AtOnce, ServiceHolderCurrent, LibraryHolderCurrent
  <2>3. ASSUME ~library', based', NEW q \in Requests,
               phase'[q] \in {"preparing", "calling"}
        PROVE  carried'[q] >= began'[q]
    <3>1. ~library /\ based /\ began' = began /\ holder = token
      BY <2>3 DEF Refresh, ServiceHolderCurrent
    <3>2. phase[q] \in {"preparing", "calling"} /\ carried[q] >= began[q]
      BY <1>2, <2>3, <3>1 DEF Refresh, TakenFromManager
    <3>3. CASE q = r
      <4>1. carried'[r] = token + 1
        BY <1>2, <3>1 DEF Refresh
      <4>2. QED
        BY <3>1, <3>3, <4>1 DEF BeganBefore
    <3>4. CASE q # r
      BY <1>2, <3>1, <3>2, <3>4 DEF Refresh
    <3>5. QED
      BY <3>3, <3>4
  <2>4. TakenFromManager'
    BY <2>3 DEF TakenFromManager
  <2>5. ReloadsLibrary' /\ BeganBefore'
    BY DEF Refresh
  <2>6. QED
    BY <2>1, <2>2, <2>4, <2>5 DEF OneUpdateAtATime, InitializingFresh
<1>3. CASE ~AtOnce
  <2>1. phase'[r] = "initializing" /\ library' /\ based' /\ fresh'
        /\ carried'[r] = token'
        /\ \A q \in Requests : phase'[q] = "initializing" => q = r
    BY <1>1, <1>3 DEF Refresh, AtOnce
  <2>2. ReloadsLibrary' /\ BeganBefore'
    BY DEF Refresh
  <2>3. QED
    BY <2>1, <2>2 DEF ServiceHolderCurrent, TakenFromManager,
                      LibraryHolderCurrent, OneUpdateAtATime, InitializingFresh
<1>4. QED
  BY <1>2, <1>3

(* The new client is installed: it carries the manager's token.            *)
LEMMA InitializedStep ==
  ASSUME HolderInv, TypeOK', NEW r \in Requests, Initialized(r)
  PROVE  HolderInv'
<1> USE DEF HolderInv, TypeOK, BeganBefore, ReloadsLibrary, Call, Install, manager
<1>1. holder' = token' /\ library' /\ \A q \in Requests : phase'[q] # "initializing"
  BY DEF Initialized, InitializingFresh, OneUpdateAtATime
<1>2. ReloadsLibrary' /\ BeganBefore'
  BY DEF Initialized
<1>3. QED
  BY <1>1, <1>2 DEF ServiceHolderCurrent, TakenFromManager, LibraryHolderCurrent,
              OneUpdateAtATime, InitializingFresh

(* A reload changes the held client in library mode alone, and says so.    *)
LEMMA ProbeStep ==
  ASSUME HolderInv, TypeOK', NEW p \in Probes,
         Reload(p) \/ Reloaded(p) \/ ReloadFails(p)
  PROVE  HolderInv'
  BY DEF HolderInv, TypeOK, BeganBefore, ReloadsLibrary, manager, Reload, Reloaded, ReloadFails,
         ServiceHolderCurrent, TakenFromManager, LibraryHolderCurrent,
         OneUpdateAtATime, InitializingFresh
-----------------------------------------------------------------------------
LEMMA HolderNext == HolderInv /\ [Next]_vars => HolderInv'
<1> SUFFICES ASSUME HolderInv, [Next]_vars PROVE HolderInv'
  OBVIOUS
<1>1. TypeOK'
  BY TypesStep DEF HolderInv
<1>2. ASSUME NEW r \in Requests,
             TakeClient(r) \/ CallAsPrepared(r) \/ InitializeFails(r) \/ End(r)
      PROVE  HolderInv'
  BY <1>1, <1>2, RequestStep
<1>3. ASSUME NEW r \in Requests, Refresh(r) PROVE HolderInv'
  BY <1>1, <1>3, RefreshStep
<1>4. ASSUME NEW r \in Requests, Initialized(r) PROVE HolderInv'
  BY <1>1, <1>4, InitializedStep
<1>5. ASSUME NEW p \in Probes, Reload(p) \/ Reloaded(p) \/ ReloadFails(p)
      PROVE  HolderInv'
  BY <1>1, <1>5, ProbeStep
<1>6. CASE Expire
  BY <1>1, <1>6 DEF Expire, HolderInv, BeganBefore, ReloadsLibrary, ServiceHolderCurrent,
                    TakenFromManager, LibraryHolderCurrent, OneUpdateAtATime,
                    InitializingFresh
<1>7. CASE UNCHANGED vars
  BY <1>1, <1>7 DEF vars, manager, HolderInv, BeganBefore, ReloadsLibrary,
                    ServiceHolderCurrent, TakenFromManager, LibraryHolderCurrent,
                    OneUpdateAtATime, InitializingFresh
<1>8. QED
  BY <1>2, <1>3, <1>4, <1>5, <1>6, <1>7 DEF Next

LEMMA HolderInvariant == Spec => []HolderInv
  BY HolderInit, HolderNext, PTL DEF Spec
-----------------------------------------------------------------------------
(* Every variable of the client holder stays in its type.                  *)
THEOREM HolderTypeCorrect == Spec => []TypeOK
<1>1. HolderInv => TypeOK
  BY DEF HolderInv
<1>2. QED
  BY <1>1, HolderInvariant, PTL

(* In service mode the held client carries the manager's token             *)
(* (update_azure_token).                                                   *)
THEOREM ServiceHolderIsCurrent == Spec => []ServiceHolderCurrent
<1>1. HolderInv => ServiceHolderCurrent
  BY DEF HolderInv
<1>2. QED
  BY <1>1, HolderInvariant, PTL

(* In service mode no request calls with a token older than the one the    *)
(* manager had when it took its client.                                    *)
THEOREM CallsAreNotOlder == Spec => []NotOlderThanAtStart
<1>1. HolderInv => NotOlderThanAtStart
  BY DEF HolderInv, TakenFromManager, NotOlderThanAtStart
<1>2. QED
  BY <1>1, HolderInvariant, PTL

(* In library mode the held client carries the manager's token but for an  *)
(* update in progress, a failed one or a reload.                           *)
THEOREM LibraryHolderIsCurrent == Spec => []LibraryHolderCurrent
<1>1. HolderInv => LibraryHolderCurrent
  BY DEF HolderInv
<1>2. QED
  BY <1>1, HolderInvariant, PTL

(* One request at a time initializes a client, with the manager's token.   *)
THEOREM UpdatesDoNotOverlap == Spec => []OneUpdateAtATime
<1>1. HolderInv => OneUpdateAtATime
  BY DEF HolderInv
<1>2. QED
  BY <1>1, HolderInvariant, PTL
=============================================================================
