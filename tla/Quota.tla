-------------------------------- MODULE Quota --------------------------------
(***************************************************************************)
(* Token quotas: the limiters a request passes before it is answered and   *)
(* is charged by afterwards (src/src/quota, src/src/utils/quota_utils.py), *)
(* and the scheduler thread that renews them                               *)
(* (src/src/runners/quota_scheduler.py).                                   *)
(*                                                                         *)
(* The limiters of all worker processes and the scheduler share one table, *)
(* with a row per user and one for the cluster.  Connections autocommit:   *)
(* every statement is a transaction of its own, so a step is one statement.*)
(* A tick is an interval of which the periods are multiples; revoked_at is *)
(* kept as the age of the row in ticks.                                    *)
(***************************************************************************)
EXTENDS Integers, Sequences, FiniteSets, FiniteSetsExt

CONSTANTS
  Limiters,       \* the configured limiters, in order
  Requests,       \* slots of requests, in any worker
  Users,
  Cluster,        \* the subject of cluster limiters, id ''
  MaxCost,        \* tokens one LLM call uses at most
  MaxCharges,     \* LLM calls of a request: summarizations and the answer
  MaxQuota,       \* the largest value the column available can hold
  LongestPeriod,  \* ages are told apart up to this
  Faults          \* statements may fail

ASSUME QuotaAssumption ==
  /\ Limiters \in Seq([type : {"u", "c"}, initial : Nat, increase : Nat,
                       period : 1..LongestPeriod])
  /\ Limiters # <<>>
  /\ IsFiniteSet(Requests) /\ Cluster \notin Users
  /\ MaxCost \in Nat \ {0} /\ MaxCharges \in Nat \ {0} /\ LongestPeriod \in Nat
  /\ MaxQuota \in Int /\ Faults \in BOOLEAN

VARIABLES
  rows,       \* the subjects that have a row
  available,  \* column available
  age,        \* ticks since revoked_at, up to LongestPeriod
  phase,      \* what a request does
  user,       \* who sent it
  at,         \* the limiter it is at
  charges,    \* LLM calls it was charged for or is being charged for
  cost,       \* tokens of the call being charged
  scheduler   \* the limiter and the statement the scheduler is at

table == <<rows, available, age>>
locals == <<user, at, charges, cost>>
vars == <<table, phase, locals, scheduler>>

Subjects == Users \cup {Cluster}
Positions == DOMAIN Limiters

TypeOf(s) == IF s = Cluster THEN "c" ELSE "u"
SubjectAt(i, u) == IF Limiters[i].type = "c" THEN Cluster ELSE u
LimitersOf(s) == {i \in Positions : Limiters[i].type = TypeOf(s)}

Init ==
  /\ rows = {}
  /\ available = [s \in Subjects |-> 0]
  /\ age = [s \in Subjects |-> 0]
  /\ phase = [r \in Requests |-> "idle"]
  /\ user \in [Requests -> Users]
  /\ at = [r \in Requests |-> 1]
  /\ charges = [r \in Requests |-> 0]
  /\ cost = [r \in Requests |-> 0]
  /\ scheduler = [limiter |-> 1, stage |-> "increase"]

-----------------------------------------------------------------------------
(* Requests.                                                               *)

Goto(r, p) == phase' = [phase EXCEPT ![r] = p]

(* The request ends: answered, blocked, interrupted, refused or failed.    *)
End(r) ==
  /\ Goto(r, "idle")
  /\ at' = [at EXCEPT ![r] = 1]
  /\ charges' = [charges EXCEPT ![r] = 0]
  /\ cost' = [cost EXCEPT ![r] = 0]

(* On to the next limiter, or out of the loop over the limiters.           *)
\* Mutant: the loop over the limiters runs once too often.
ContinuePastTheLast(r, p, after) ==
  /\ Goto(r, IF at[r] > Len(Limiters) THEN after ELSE p)
  /\ at' = [at EXCEPT ![r] = IF @ > Len(Limiters) THEN 1 ELSE @ + 1]
Continue(r, p, after) ==
  /\ Goto(r, IF at[r] = Len(Limiters) THEN after ELSE p)
  /\ at' = [at EXCEPT ![r] = IF @ = Len(Limiters) THEN 1 ELSE @ + 1]

Arrive(r) ==
  /\ phase[r] = "idle"
  /\ Goto(r, "check")
  /\ \E u \in Users : user' = [user EXCEPT ![r] = u]
  /\ UNCHANGED <<table, at, charges, cost, scheduler>>

(* ensure_available_quota with the value that was read: 429 or go on.      *)
\* Mutant: a quota that is used up still lets requests pass.
AdmitOnEmpty(r, value) ==
  \/ value < 0 /\ End(r)
  \/ value >= 0 /\ Continue(r, "check", "working") /\ UNCHANGED <<charges, cost>>
Admit(r, value) ==
  \/ value <= 0 /\ End(r)
  \/ value > 0 /\ Continue(r, "check", "working") /\ UNCHANGED <<charges, cost>>

\* Mutant: a missing row counts as the initial quota and is not created.
ReadWithoutRow(r) ==
  /\ phase[r] = "check"
  /\ LET s == SubjectAt(at[r], user[r])
     IN  Admit(r, IF s \in rows THEN available[s] ELSE Limiters[at[r]].initial)
  /\ UNCHANGED <<table, user, scheduler>>
(* SELECT: a missing row is created by the next statement.                 *)
Read(r) ==
  /\ phase[r] = "check"
  /\ LET s == SubjectAt(at[r], user[r])
     IN  \/ s \in rows /\ Admit(r, available[s])
         \/ s \notin rows /\ Goto(r, "init") /\ UNCHANGED <<at, charges, cost>>
  /\ UNCHANGED <<table, user, scheduler>>

(* INSERT: violates the primary key if another request was faster, which   *)
(* is answered with 500.                                                   *)
InitQuota(r) ==
  /\ phase[r] = "init"
  /\ LET s == SubjectAt(at[r], user[r])
         initial == Limiters[at[r]].initial
     IN  \/ /\ s \notin rows
            /\ rows' = rows \cup {s}
            /\ available' = [available EXCEPT ![s] = initial]
            /\ age' = [age EXCEPT ![s] = 0]
            /\ Admit(r, initial)
         \/ s \in rows /\ End(r) /\ UNCHANGED table
  /\ UNCHANGED <<user, scheduler>>

(* An LLM call returned and is charged to all limiters in turn.            *)
LLMCall(r) ==
  /\ phase[r] = "working" /\ charges[r] < MaxCharges
  /\ Goto(r, "charging")
  /\ charges' = [charges EXCEPT ![r] = @ + 1]
  /\ \E c \in 1..MaxCost : cost' = [cost EXCEPT ![r] = c]
  /\ UNCHANGED <<table, user, at, scheduler>>

(* The answer was given, or the request fails before it is.                *)
Finish(r) ==
  /\ phase[r] = "working"
  /\ End(r)
  /\ UNCHANGED <<table, user, scheduler>>

(* UPDATE: changes no row if there is none.                                *)
Consume(r) ==
  /\ phase[r] = "charging"
  /\ LET s == SubjectAt(at[r], user[r])
     IN  available' = IF s \in rows THEN [available EXCEPT ![s] = @ - cost[r]]
                      ELSE available
  /\ Continue(r, "charging", "working")
  /\ cost' = [cost EXCEPT ![r] = IF phase'[r] = "working" THEN 0 ELSE @]
  /\ UNCHANGED <<rows, age, user, charges, scheduler>>

(* A statement of the request fails: 500, and limiters it did not reach    *)
(* are not charged.                                                        *)
StatementFails(r) ==
  /\ Faults /\ phase[r] \in {"check", "init", "charging"}
  /\ End(r)
  /\ UNCHANGED <<table, user, scheduler>>

-----------------------------------------------------------------------------
(* The scheduler.                                                          *)

NextLimiter ==
  scheduler' = [limiter |-> IF scheduler.limiter = Len(Limiters) THEN 1
                            ELSE scheduler.limiter + 1,
                stage |-> "increase"]
ThenReset == scheduler' = [scheduler EXCEPT !.stage = "reset"]

(* The WHERE clause of both statements.  PostgreSQL's comparison is strict,*)
(* which is less than a tick away.                                         *)
Due(i) == {s \in rows : i \in LimitersOf(s) /\ age[s] >= Limiters[i].period}

(* UPDATE available=available+increase: one row beyond the column fails    *)
(* the statement for all, and the limiter is skipped.                      *)
Increase(i) ==
  /\ scheduler = [limiter |-> i, stage |-> "increase"]
  /\ LET increase == Limiters[i].increase
         due == IF increase > 0 THEN Due(i) ELSE {}
     IN  \/ /\ \A s \in due : available[s] + increase <= MaxQuota
            /\ available' = [s \in Subjects |->
                               available[s] + (IF s \in due THEN increase ELSE 0)]
            /\ age' = [s \in Subjects |-> IF s \in due THEN 0 ELSE age[s]]
            /\ ThenReset
         \/ /\ \E s \in due : available[s] + increase > MaxQuota
            /\ NextLimiter
            /\ UNCHANGED <<available, age>>
  /\ UNCHANGED <<rows, phase, locals>>

(* UPDATE available=initial.                                               *)
\* Mutant: the reset marks the rows as renewed and leaves them as they are.
ResetStampsOnly(i) ==
  /\ scheduler = [limiter |-> i, stage |-> "reset"]
  /\ LET due == IF Limiters[i].initial > 0 THEN Due(i) ELSE {}
     IN  age' = [s \in Subjects |-> IF s \in due THEN 0 ELSE age[s]]
  /\ NextLimiter
  /\ UNCHANGED <<rows, available, phase, locals>>
Reset(i) ==
  /\ scheduler = [limiter |-> i, stage |-> "reset"]
  /\ LET initial == Limiters[i].initial
         due == IF initial > 0 THEN Due(i) ELSE {}
     IN  /\ available' = [s \in Subjects |->
                            IF s \in due THEN initial ELSE available[s]]
         /\ age' = [s \in Subjects |-> IF s \in due THEN 0 ELSE age[s]]
  /\ NextLimiter
  /\ UNCHANGED <<rows, phase, locals>>

(* The database is away: the loop goes on with the next limiter.           *)
SkipLimiter ==
  /\ Faults
  /\ NextLimiter
  /\ UNCHANGED <<table, phase, locals>>

Tick ==
  /\ age' = [s \in Subjects |->
               IF s \in rows /\ age[s] < LongestPeriod THEN age[s] + 1 ELSE age[s]]
  /\ UNCHANGED <<rows, available, phase, locals, scheduler>>

RequestStep(r) ==
  \/ Arrive(r) \/ Read(r) \/ InitQuota(r) \/ LLMCall(r) \/ Finish(r)
  \/ Consume(r) \/ StatementFails(r)
Scheduler == (\E i \in Positions : Increase(i) \/ Reset(i)) \/ SkipLimiter

Next == (\E r \in Requests : RequestStep(r)) \/ Scheduler \/ Tick

(* The scheduler thread loops and time passes.  A statement of the         *)
(* scheduler that is tried again and again succeeds again and again.       *)
(* Requests need not come, go on or end.                                   *)
Spec == Init /\ [][Next]_vars
FairSpec ==
  /\ Spec /\ WF_vars(Tick) /\ WF_vars(Scheduler)
  /\ \A i \in Positions : SF_vars(Increase(i)) /\ SF_vars(Reset(i))

-----------------------------------------------------------------------------
TypeOK ==
  /\ rows \subseteq Subjects
  /\ available \in [Subjects -> Int]
  /\ age \in [Subjects -> 0..LongestPeriod]
  /\ phase \in [Requests -> {"idle", "check", "init", "working", "charging"}]
  /\ user \in [Requests -> Users]
  /\ at \in [Requests -> Positions]
  /\ charges \in [Requests -> 0..MaxCharges]
  /\ cost \in [Requests -> 0..MaxCost]
  /\ scheduler \in [limiter : Positions, stage : {"increase", "reset"}]

(* A request that was let through has a row with every limiter, so none of *)
(* its charges is an UPDATE that silently changes nothing                  *)
(* (_consume_tokens does not look at the row count).                       *)
ChargesFindRows ==
  \A r \in Requests : phase[r] \in {"working", "charging"} =>
    \A i \in Positions : SubjectAt(i, user[r]) \in rows

(* What r may still be charged to s before it is checked again.            *)
PerCall(s) == MaxCost * Cardinality(LimitersOf(s))
Passed(r, s) ==
  \/ phase[r] \in {"working", "charging"} /\ \E i \in Positions : SubjectAt(i, user[r]) = s
  \/ /\ phase[r] \in {"check", "init"}
     /\ \E i \in 1..(at[r] - 1) : SubjectAt(i, user[r]) = s
Outstanding(r, s) ==
  IF ~Passed(r, s) THEN 0
  ELSE PerCall(s) * (MaxCharges - charges[r])
       + (IF phase[r] = "charging"
          THEN cost[r] * Cardinality({i \in LimitersOf(s) : i >= at[r]}) ELSE 0)

(* Quotas are checked before the answer and consumed after it, so requests *)
(* that run at the same time all pass on the last token.  The debt is      *)
(* bounded: a subject never owes more than what the requests that can run  *)
(* at once use in one go, counting what they have not been charged yet.    *)
OverspendBounded ==
  \A s \in rows :
    available[s] - MapThenSumSet(LAMBDA r : Outstanding(r, s), Requests)
      >= 1 - Cardinality(Requests) * MaxCharges * PerCall(s)

Account == INSTANCE Ledger WITH
  Credit <- [s \in Subjects |-> MaxCharges * PerCall(s)],
  accounts <- rows,
  balance <- available,
  hold <- [r \in Requests |-> [s \in Subjects |-> Outstanding(r, s)]]

(* Limiters that are asked one after the other, and charged one after the  *)
(* other after each call, implement accounts with credit: a charge is made *)
(* to an account whose balance was found positive by the same request, and *)
(* is within what its calls can cost.                                      *)
ImplementsLedger == Account!Spec

(* A subject that used up its quota gets some again: whatever requests were*)
(* in flight, however often a statement of the scheduler failed, and       *)
(* although every statement restarts the period for the others.            *)
ExhaustionEnds ==
  \A s \in Subjects : (s \in rows /\ available[s] <= 0) ~> (available[s] > 0)
=============================================================================
