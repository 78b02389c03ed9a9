----------------------------- MODULE Quota_proofs -----------------------------
(***************************************************************************)
(* The rows of the quota table keep their types, whoever is charged was    *)
(* let through every limiter and has a row with each of them, and the debt *)
(* of a subject is bounded.                                                *)
(***************************************************************************)
EXTENDS Quota, FiniteSetTheorems, TLAPS

(* Request by request: it starts at the first limiter, and the limiters it *)
(* has passed have their rows.                                             *)
StartsAtFirst(r) == phase[r] = "idle" => at[r] = 1
ChargedHasRows(r) ==
  phase[r] \in {"working", "charging"} =>
    \A i \in Positions : SubjectAt(i, user[r]) \in rows
PassedHaveRows(r) ==
  phase[r] \in {"check", "init"} =>
    \A i \in Positions : i < at[r] => SubjectAt(i, user[r]) \in rows
QuotaInv ==
  /\ TypeOK
  /\ \A r \in Requests : StartsAtFirst(r) /\ ChargedHasRows(r) /\ PassedHaveRows(r)

-----------------------------------------------------------------------------
(* Limiters.                                                               *)
LEMMA SomeLimiter ==
  /\ Len(Limiters) \in Nat \ {0} /\ Positions = 1..Len(Limiters)
  /\ \A i \in Positions :
       /\ Limiters[i] \in [type : {"u", "c"}, initial : Nat, increase : Nat,
                           period : 1..LongestPeriod]
       /\ Limiters[i].initial \in Nat /\ Limiters[i].increase \in Nat
<1> DEFINE Limiter == [type : {"u", "c"}, initial : Nat, increase : Nat,
                       period : 1..LongestPeriod]
<1>1. Limiters \in Seq(Limiter) /\ Limiters # <<>>
  BY QuotaAssumption DEF QuotaAssumption
<1>2. Len(Limiters) \in Nat \ {0} /\ Positions = 1..Len(Limiters)
  <2> HIDE DEF Limiter
  <2>1. QED
    BY <1>1 DEF Positions
<1>3. \A i \in Positions : Limiters[i] \in Limiter
  <2> HIDE DEF Limiter
  <2>1. QED
    BY <1>1, <1>2
<1>4. QED
  BY <1>2, <1>3

LEMMA SubjectsOfLimiters ==
  \A i \in Positions, u \in Users : SubjectAt(i, u) \in Subjects
  BY DEF SubjectAt, Subjects

(* A renewed row is of age zero.                                           *)
LEMMA FreshAge == 0 \in 0..LongestPeriod
  BY QuotaAssumption DEF QuotaAssumption

LEMMA NextLimiterType ==
  ASSUME QuotaInv, NextLimiter
  PROVE  scheduler' \in [limiter : Positions, stage : {"increase", "reset"}]
<1>1. scheduler.limiter \in 1..Len(Limiters)
  BY SomeLimiter DEF QuotaInv, TypeOK
<1>2. (IF scheduler.limiter = Len(Limiters) THEN 1 ELSE scheduler.limiter + 1)
        \in Positions
  BY <1>1, SomeLimiter
<1>3. QED
  BY <1>2 DEF NextLimiter

(* A request that ends has passed nothing, and the others are not affected.*)
LEMMA EndStep ==
  ASSUME QuotaInv, NEW r \in Requests, End(r),
         rows \subseteq rows', rows' \subseteq Subjects,
         available' \in [Subjects -> Int], age' \in [Subjects -> 0..LongestPeriod],
         user' = user, scheduler' = scheduler
  PROVE  QuotaInv'
<1>1. TypeOK'
  <2>1. 1 \in Positions /\ 0 \in 0..MaxCharges /\ 0 \in 0..MaxCost
    BY SomeLimiter, QuotaAssumption DEF QuotaAssumption
  <2>2. at' \in [Requests -> Positions]
    BY <2>1 DEF QuotaInv, TypeOK, End
  <2>3. charges' \in [Requests -> 0..MaxCharges] /\ cost' \in [Requests -> 0..MaxCost]
    BY <2>1 DEF QuotaInv, TypeOK, End
  <2>4. phase' \in [Requests -> {"idle", "check", "init", "working", "charging"}]
    BY DEF QuotaInv, TypeOK, End, Goto
  <2>5. QED
    BY <2>2, <2>3, <2>4 DEF QuotaInv, TypeOK
<1>2. /\ phase'[r] = "idle" /\ at'[r] = 1
      /\ \A q \in Requests \ {r} : phase'[q] = phase[q] /\ at'[q] = at[q]
  BY DEF QuotaInv, TypeOK, End, Goto
<1>3. \A q \in Requests : StartsAtFirst(q)' /\ ChargedHasRows(q)' /\ PassedHaveRows(q)'
  BY <1>2 DEF QuotaInv, StartsAtFirst, ChargedHasRows, PassedHaveRows, SubjectAt
<1>4. QED
  BY <1>1, <1>3 DEF QuotaInv

(* A limiter lets a request through: its row exists by then.               *)
LEMMA AdmitStep ==
  ASSUME QuotaInv, NEW r \in Requests, NEW value \in Int, Admit(r, value),
         phase[r] \in {"check", "init"},
         rows \subseteq rows', rows' \subseteq Subjects,
         SubjectAt(at[r], user[r]) \in rows',
         available' \in [Subjects -> Int], age' \in [Subjects -> 0..LongestPeriod],
         user' = user, scheduler' = scheduler
  PROVE  QuotaInv'
<1>1. CASE End(r)
  BY <1>1, EndStep
<1>2. CASE Continue(r, "check", "working") /\ UNCHANGED <<charges, cost>>
  <2>1. at[r] \in 1..Len(Limiters) /\ Len(Limiters) \in Nat \ {0}
    BY SomeLimiter DEF QuotaInv, TypeOK
  <2>2. /\ phase' = [phase EXCEPT ![r] = IF at[r] = Len(Limiters)
                                         THEN "working" ELSE "check"]
        /\ at' = [at EXCEPT ![r] = IF at[r] = Len(Limiters) THEN 1 ELSE at[r] + 1]
    BY <1>2 DEF Continue, Goto, QuotaInv, TypeOK
  <2>3. (IF at[r] = Len(Limiters) THEN 1 ELSE at[r] + 1) \in Positions
    BY <2>1, SomeLimiter
  <2>4. TypeOK'
    BY <1>2, <2>2, <2>3 DEF QuotaInv, TypeOK
  <2>5. /\ phase'[r] = (IF at[r] = Len(Limiters) THEN "working" ELSE "check")
        /\ at'[r] = (IF at[r] = Len(Limiters) THEN 1 ELSE at[r] + 1)
        /\ \A q \in Requests \ {r} : phase'[q] = phase[q] /\ at'[q] = at[q]
    BY <2>2 DEF QuotaInv, TypeOK
  <2>6. \A i \in Positions : i <= at[r] => SubjectAt(i, user[r]) \in rows'
    BY <2>1, SomeLimiter DEF QuotaInv, PassedHaveRows
  <2>7. StartsAtFirst(r)' /\ ChargedHasRows(r)' /\ PassedHaveRows(r)'
    <3>1. CASE at[r] = Len(Limiters)
      BY <2>1, <2>5, <2>6, <3>1, SomeLimiter
         DEF StartsAtFirst, ChargedHasRows, PassedHaveRows, SubjectAt
    <3>2. CASE at[r] # Len(Limiters)
      BY <2>1, <2>5, <2>6, <3>2, SomeLimiter
         DEF StartsAtFirst, ChargedHasRows, PassedHaveRows, SubjectAt
    <3>3. QED
      BY <3>1, <3>2
  <2>8. \A q \in Requests \ {r} : StartsAtFirst(q)' /\ ChargedHasRows(q)' /\ PassedHaveRows(q)'
    BY <2>5 DEF QuotaInv, StartsAtFirst, ChargedHasRows, PassedHaveRows, SubjectAt
  <2>9. QED
    BY <2>4, <2>7, <2>8 DEF QuotaInv
<1>3. QED
  BY <1>1, <1>2 DEF Admit

(* A statement of the scheduler, or time: requests keep their place.       *)
LEMMA TableStep ==
  ASSUME QuotaInv, rows' = rows, phase' = phase,
         user' = user, at' = at, charges' = charges, cost' = cost,
         available' \in [Subjects -> Int], age' \in [Subjects -> 0..LongestPeriod],
         scheduler' \in [limiter : Positions, stage : {"increase", "reset"}]
  PROVE  QuotaInv'
  BY DEF QuotaInv, TypeOK, StartsAtFirst, ChargedHasRows, PassedHaveRows, SubjectAt

-----------------------------------------------------------------------------
(* One lemma per action.                                                   *)
LEMMA InitQuotaInv == Init => QuotaInv
<1>1. SUFFICES ASSUME Init PROVE QuotaInv
  OBVIOUS
<1>2. TypeOK
  BY <1>1, SomeLimiter, QuotaAssumption DEF QuotaAssumption, Init, TypeOK
<1>3. QED
  BY <1>1, <1>2 DEF Init, QuotaInv, StartsAtFirst, ChargedHasRows, PassedHaveRows

LEMMA ArriveStep ==
  ASSUME QuotaInv, NEW r \in Requests, Arrive(r)
  PROVE  QuotaInv'
<1>1. PICK u \in Users : user' = [user EXCEPT ![r] = u]
  BY DEF Arrive
<1>2. /\ phase[r] = "idle" /\ phase' = [phase EXCEPT ![r] = "check"]
      /\ rows' = rows /\ available' = available /\ age' = age
      /\ at' = at /\ charges' = charges /\ cost' = cost /\ scheduler' = scheduler
  BY DEF Arrive, Goto, table
<1>3. TypeOK'
  BY <1>1, <1>2 DEF QuotaInv, TypeOK
<1>4. at'[r] = 1 /\ \A i \in Positions : ~(i < 1)
  BY <1>2, SomeLimiter DEF QuotaInv, StartsAtFirst
<1>5. /\ phase'[r] = "check"
      /\ \A q \in Requests \ {r} : phase'[q] = phase[q] /\ user'[q] = user[q]
  BY <1>1, <1>2 DEF QuotaInv, TypeOK
<1>6. \A q \in Requests : StartsAtFirst(q)' /\ ChargedHasRows(q)' /\ PassedHaveRows(q)'
  BY <1>2, <1>4, <1>5
     DEF QuotaInv, StartsAtFirst, ChargedHasRows, PassedHaveRows, SubjectAt
<1>7. QED
  BY <1>3, <1>6 DEF QuotaInv

LEMMA ReadStep ==
  ASSUME QuotaInv, NEW r \in Requests, Read(r)
  PROVE  QuotaInv'
<1>1. PICK s : s = SubjectAt(at[r], user[r])
  OBVIOUS
<1>2. /\ phase[r] = "check" /\ rows' = rows /\ available' = available
      /\ age' = age /\ user' = user /\ scheduler' = scheduler
  BY DEF Read, table
<1>3. s \in Subjects
  BY <1>1, SubjectsOfLimiters DEF QuotaInv, TypeOK
<1>4. CASE s \in rows /\ Admit(r, available[s])
  <2>1. available[s] \in Int
    BY <1>3 DEF QuotaInv, TypeOK
  <2>2. /\ rows \subseteq rows' /\ rows' \subseteq Subjects
        /\ available' \in [Subjects -> Int] /\ age' \in [Subjects -> 0..LongestPeriod]
    BY <1>2 DEF QuotaInv, TypeOK
  <2>3. QED
    BY <1>1, <1>2, <1>4, <2>1, <2>2, AdmitStep
<1>5. CASE s \notin rows /\ Goto(r, "init") /\ UNCHANGED <<at, charges, cost>>
  <2>1. phase' = [phase EXCEPT ![r] = "init"]
    BY <1>5 DEF Goto
  <2>2. TypeOK'
    BY <1>2, <1>5, <2>1 DEF QuotaInv, TypeOK
  <2>3. /\ phase'[r] = "init"
        /\ \A q \in Requests \ {r} : phase'[q] = phase[q]
    BY <2>1 DEF QuotaInv, TypeOK
  <2>4. \A q \in Requests : StartsAtFirst(q)' /\ ChargedHasRows(q)' /\ PassedHaveRows(q)'
    BY <1>2, <1>5, <2>3
       DEF QuotaInv, StartsAtFirst, ChargedHasRows, PassedHaveRows, SubjectAt
  <2>5. QED
    BY <2>2, <2>4 DEF QuotaInv
<1>6. QED
  BY <1>1, <1>4, <1>5 DEF Read

LEMMA InitQuotaStep ==
  ASSUME QuotaInv, NEW r \in Requests, InitQuota(r)
  PROVE  QuotaInv'
<1>1. PICK s, initial : s = SubjectAt(at[r], user[r]) /\ initial = Limiters[at[r]].initial
  OBVIOUS
<1>2. phase[r] = "init" /\ user' = user /\ scheduler' = scheduler
  BY DEF InitQuota
<1>3. s \in Subjects /\ initial \in Int
  BY <1>1, SubjectsOfLimiters, SomeLimiter DEF QuotaInv, TypeOK
<1>4. CASE /\ rows' = rows \cup {s}
           /\ available' = [available EXCEPT ![s] = initial]
           /\ age' = [age EXCEPT ![s] = 0]
           /\ Admit(r, initial)
  <2>1. /\ rows \subseteq rows' /\ rows' \subseteq Subjects /\ s \in rows'
        /\ available' \in [Subjects -> Int]
    BY <1>3, <1>4 DEF QuotaInv, TypeOK
  <2>2. age' \in [Subjects -> 0..LongestPeriod]
    BY <1>4, FreshAge DEF QuotaInv, TypeOK
  <2>3. QED
    BY <1>1, <1>2, <1>3, <1>4, <2>1, <2>2, AdmitStep
<1>5. CASE End(r) /\ UNCHANGED table
  <2>1. /\ rows \subseteq rows' /\ rows' \subseteq Subjects
        /\ available' \in [Subjects -> Int] /\ age' \in [Subjects -> 0..LongestPeriod]
    BY <1>5 DEF QuotaInv, TypeOK, table
  <2>2. QED
    BY <1>2, <1>5, <2>1, EndStep
<1>6. QED
  BY <1>1, <1>4, <1>5 DEF InitQuota

(* The steps that end a request and leave the table alone.                 *)
LEMMA EndingStep ==
  ASSUME QuotaInv, NEW r \in Requests, Finish(r) \/ StatementFails(r)
  PROVE  QuotaInv'
<1>1. /\ End(r) /\ user' = user /\ scheduler' = scheduler
      /\ rows' = rows /\ available' = available /\ age' = age
  BY DEF Finish, StatementFails, table
<1>2. /\ rows \subseteq rows' /\ rows' \subseteq Subjects
      /\ available' \in [Subjects -> Int] /\ age' \in [Subjects -> 0..LongestPeriod]
  BY <1>1 DEF QuotaInv, TypeOK
<1>3. QED
  BY <1>1, <1>2, EndStep

LEMMA LLMCallStep ==
  ASSUME QuotaInv, NEW r \in Requests, LLMCall(r)
  PROVE  QuotaInv'
<1>1. PICK c \in 1..MaxCost : cost' = [cost EXCEPT ![r] = c]
  BY DEF LLMCall
<1>2. /\ phase[r] = "working" /\ charges[r] < MaxCharges
      /\ phase' = [phase EXCEPT ![r] = "charging"]
      /\ charges' = [charges EXCEPT ![r] = charges[r] + 1]
      /\ rows' = rows /\ available' = available /\ age' = age
      /\ user' = user /\ at' = at /\ scheduler' = scheduler
  BY DEF LLMCall, Goto, table, QuotaInv, TypeOK
<1>3. TypeOK'
  <2>1. charges[r] + 1 \in 0..MaxCharges /\ c \in 0..MaxCost
    BY <1>2, QuotaAssumption DEF QuotaAssumption, QuotaInv, TypeOK
  <2>2. QED
    BY <1>1, <1>2, <2>1 DEF QuotaInv, TypeOK
<1>4. /\ phase'[r] = "charging"
      /\ \A q \in Requests \ {r} : phase'[q] = phase[q]
  BY <1>2 DEF QuotaInv, TypeOK
<1>5. \A q \in Requests : StartsAtFirst(q)' /\ ChargedHasRows(q)' /\ PassedHaveRows(q)'
  BY <1>2, <1>4 DEF QuotaInv, StartsAtFirst, ChargedHasRows, PassedHaveRows, SubjectAt
<1>6. QED
  BY <1>3, <1>5 DEF QuotaInv

LEMMA ConsumeStep ==
  ASSUME QuotaInv, NEW r \in Requests, Consume(r)
  PROVE  QuotaInv'
<1>1. PICK s : s = SubjectAt(at[r], user[r])
  OBVIOUS
<1>2. /\ phase[r] = "charging"
      /\ rows' = rows /\ age' = age /\ user' = user /\ charges' = charges
      /\ scheduler' = scheduler
      /\ phase' = [phase EXCEPT ![r] = IF at[r] = Len(Limiters)
                                       THEN "working" ELSE "charging"]
      /\ at' = [at EXCEPT ![r] = IF at[r] = Len(Limiters) THEN 1 ELSE at[r] + 1]
  BY DEF Consume, Continue, Goto, QuotaInv, TypeOK
<1>3. available' \in [Subjects -> Int]
  <2>1. s \in Subjects /\ cost[r] \in Int
    BY <1>1, SubjectsOfLimiters, QuotaAssumption
       DEF QuotaAssumption, QuotaInv, TypeOK
  <2>2. available' = IF s \in rows THEN [available EXCEPT ![s] = @ - cost[r]]
                     ELSE available
    BY <1>1 DEF Consume
  <2>3. QED
    BY <2>1, <2>2 DEF QuotaInv, TypeOK
<1>4. cost' \in [Requests -> 0..MaxCost]
  <2>1. cost' = [cost EXCEPT ![r] = IF phase'[r] = "working" THEN 0 ELSE @]
    BY DEF Consume
  <2>2. QED
    BY <2>1, QuotaAssumption DEF QuotaAssumption, QuotaInv, TypeOK
<1>5. TypeOK'
  <2>1. (IF at[r] = Len(Limiters) THEN 1 ELSE at[r] + 1) \in Positions
    BY SomeLimiter DEF QuotaInv, TypeOK
  <2>2. QED
    BY <1>2, <1>3, <1>4, <2>1 DEF QuotaInv, TypeOK
<1>6. /\ phase'[r] \in {"working", "charging"}
      /\ \A q \in Requests \ {r} : phase'[q] = phase[q] /\ at'[q] = at[q]
  BY <1>2 DEF QuotaInv, TypeOK
<1>7. \A q \in Requests : StartsAtFirst(q)' /\ ChargedHasRows(q)' /\ PassedHaveRows(q)'
  BY <1>2, <1>6 DEF QuotaInv, StartsAtFirst, ChargedHasRows, PassedHaveRows, SubjectAt
<1>8. QED
  BY <1>5, <1>7 DEF QuotaInv

(* The scheduler and time never delete a row.                              *)
LEMMA SchedulerStep ==
  ASSUME QuotaInv, Scheduler
  PROVE  QuotaInv'
<1>1. ASSUME NEW i \in Positions, Increase(i) PROVE QuotaInv'
  <2>1. PICK due : due \in SUBSET Subjects
          /\ \/ /\ available' = [s \in Subjects |-> available[s] +
                                  (IF s \in due THEN Limiters[i].increase ELSE 0)]
                /\ age' = [s \in Subjects |-> IF s \in due THEN 0 ELSE age[s]]
                /\ ThenReset
             \/ NextLimiter /\ UNCHANGED <<available, age>>
    <3>1. Due(i) \in SUBSET Subjects
      BY DEF Due, QuotaInv, TypeOK
    <3>2. QED
      BY <1>1, <3>1 DEF Increase
  <2>2. available' \in [Subjects -> Int] /\ age' \in [Subjects -> 0..LongestPeriod]
    <3>1. Limiters[i].increase \in Int
      BY SomeLimiter
    <3>2. available' \in [Subjects -> Int]
      BY <2>1, <3>1 DEF QuotaInv, TypeOK
    <3>3. age' \in [Subjects -> 0..LongestPeriod]
      BY <2>1, FreshAge DEF QuotaInv, TypeOK
    <3>4. QED
      BY <3>2, <3>3
  <2>3. scheduler' \in [limiter : Positions, stage : {"increase", "reset"}]
    <3>1. CASE ThenReset
      BY <3>1 DEF ThenReset, QuotaInv, TypeOK
    <3>2. QED
      BY <2>1, <3>1, NextLimiterType
  <2>4. QED
    BY <1>1, <2>2, <2>3, TableStep DEF Increase, locals
<1>2. ASSUME NEW i \in Positions, Reset(i) PROVE QuotaInv'
  <2>1. PICK due : due \in SUBSET Subjects
          /\ available' = [s \in Subjects |-> IF s \in due THEN Limiters[i].initial
                                              ELSE available[s]]
          /\ age' = [s \in Subjects |-> IF s \in due THEN 0 ELSE age[s]]
    <3>1. Due(i) \in SUBSET Subjects
      BY DEF Due, QuotaInv, TypeOK
    <3>2. QED
      BY <1>2, <3>1 DEF Reset
  <2>2. available' \in [Subjects -> Int] /\ age' \in [Subjects -> 0..LongestPeriod]
    <3>1. Limiters[i].initial \in Int
      BY SomeLimiter
    <3>2. available' \in [Subjects -> Int]
      BY <2>1, <3>1 DEF QuotaInv, TypeOK
    <3>3. age' \in [Subjects -> 0..LongestPeriod]
      BY <2>1, FreshAge DEF QuotaInv, TypeOK
    <3>4. QED
      BY <3>2, <3>3
  <2>3. QED
    BY <1>2, <2>2, NextLimiterType, TableStep DEF Reset, locals
<1>3. CASE SkipLimiter
  <2>1. available' \in [Subjects -> Int] /\ age' \in [Subjects -> 0..LongestPeriod]
    BY <1>3 DEF SkipLimiter, table, QuotaInv, TypeOK
  <2>2. QED
    BY <1>3, <2>1, NextLimiterType, TableStep DEF SkipLimiter, table, locals
<1>4. QED
  BY <1>1, <1>2, <1>3 DEF Scheduler

LEMMA TickStep ==
  ASSUME QuotaInv, Tick
  PROVE  QuotaInv'
<1>1. age' \in [Subjects -> 0..LongestPeriod]
  BY QuotaAssumption DEF QuotaAssumption, Tick, QuotaInv, TypeOK
<1>2. available' \in [Subjects -> Int]
      /\ scheduler' \in [limiter : Positions, stage : {"increase", "reset"}]
  BY DEF Tick, QuotaInv, TypeOK
<1>3. QED
  BY <1>1, <1>2, TableStep DEF Tick, locals

-----------------------------------------------------------------------------
LEMMA QuotaInvHolds == Spec => []QuotaInv
<1>1. QuotaInv /\ [Next]_vars => QuotaInv'
  <2>1. SUFFICES ASSUME QuotaInv, [Next]_vars PROVE QuotaInv'
    OBVIOUS
  <2>2. CASE UNCHANGED vars
    BY <2>1, <2>2, TableStep DEF vars, table, locals, QuotaInv, TypeOK
  <2>3. CASE Next
    BY <2>1, <2>3, ArriveStep, ReadStep, InitQuotaStep, LLMCallStep, EndingStep,
       ConsumeStep, SchedulerStep, TickStep DEF Next, RequestStep
  <2>4. QED
    BY <2>1, <2>2, <2>3
<1>2. QED
  BY InitQuotaInv, <1>1, PTL DEF Spec

(* Balances stay integers, ages within the longest period, and no loop     *)
(* over the limiters runs past its end.                                    *)
THEOREM QuotaTypeCorrect == Spec => []TypeOK
<1>1. QuotaInv => TypeOK
  BY DEF QuotaInv
<1>2. QED
  BY <1>1, QuotaInvHolds, PTL

(* consume_tokens always finds its rows: whoever is charged was let        *)
(* through all limiters, and rows are never deleted; for any limiters,     *)
(* users and requests in any number of workers.                            *)
THEOREM ChargesAreNotLost == Spec => []ChargesFindRows
<1>1. QuotaInv => ChargesFindRows
  BY DEF QuotaInv, ChargedHasRows, ChargesFindRows
<1>2. QED
  BY <1>1, QuotaInvHolds, PTL
-----------------------------------------------------------------------------
(* A sum of bounded naturals over a finite set is the number of the pairs  *)
(* <<r, k>> with k at most the number of r.  Counting them needs no        *)
(* recursion, and SumIsTotal says that the fold of the model counts them.  *)
TokensOf(f, R, m) == {p \in R \X (1..m) : p[2] <= f[p[1]]}
Total(f, R, m) == Cardinality(TokensOf(f, R, m))

LEMMA CountTo == \A n \in Nat : IsFiniteSet(1..n) /\ Cardinality(1..n) = n
<1>1. ASSUME NEW n \in Nat
      PROVE  IsFiniteSet(1..n) /\ Cardinality(1..n) = IF 1 > n THEN 0 ELSE n - 1 + 1
  BY 1 \in Int, n \in Int, FS_Interval
<1>2. QED
  BY <1>1

LEMMA TotalType ==
  ASSUME NEW R, IsFiniteSet(R), NEW m \in Nat, NEW f
  PROVE  /\ IsFiniteSet(TokensOf(f, R, m))
         /\ Total(f, R, m) \in Nat
         /\ Total(f, R, m) <= Cardinality(R) * m
         /\ Cardinality(R) \in Nat
<1>1. IsFiniteSet(1..m) /\ Cardinality(1..m) = m
  BY CountTo
<1>2. IsFiniteSet(R \X (1..m)) /\ Cardinality(R \X (1..m)) = Cardinality(R) * m
  BY <1>1, FS_Product
<1>3. TokensOf(f, R, m) \in SUBSET (R \X (1..m))
  BY DEF TokensOf
<1>4. IsFiniteSet(TokensOf(f, R, m)) /\ Total(f, R, m) <= Cardinality(R) * m
  BY <1>2, <1>3, FS_Subset DEF Total
<1>5. QED
  BY <1>4, FS_CardinalityType DEF Total

(* One number can be taken out of the sum.                                 *)
LEMMA TotalSplit ==
  ASSUME NEW R, IsFiniteSet(R), NEW m \in Nat, NEW f, NEW x \in R, f[x] \in 0..m
  PROVE  Total(f, R, m) = f[x] + Total(f, R \ {x}, m)
<1> DEFINE X == {x} \X (1..f[x])
           rest == TokensOf(f, R \ {x}, m)
<1>1. IsFiniteSet(X) /\ Cardinality(X) = f[x]
  <2>1. IsFiniteSet(1..f[x]) /\ Cardinality(1..f[x]) = f[x]
    BY CountTo
  <2>2. IsFiniteSet({x}) /\ Cardinality({x}) = 1
    BY FS_Singleton
  <2>3. IsFiniteSet(X) /\ Cardinality(X) = 1 * Cardinality(1..f[x])
    BY <2>1, <2>2, FS_Product
  <2>4. QED
    BY <2>1, <2>3
<1>2. IsFiniteSet(R \ {x})
  BY FS_RemoveElement
<1>3. IsFiniteSet(rest) /\ Cardinality(rest) \in Nat
  BY <1>2, TotalType DEF Total
<1>4. TokensOf(f, R, m) = X \cup rest
  BY DEF TokensOf
<1>5. X \cap rest = {}
  BY DEF TokensOf
<1> HIDE DEF X, rest
<1>6. Cardinality(X \cup rest) = Cardinality(X) + Cardinality(rest) - Cardinality({})
  BY <1>1, <1>3, <1>5, FS_Union
<1>7. Cardinality({}) = 0
  BY FS_EmptySet
<1>8. QED
  BY <1>1, <1>3, <1>4, <1>6, <1>7 DEF Total, rest

LEMMA TotalEmpty == \A f, m : Total(f, {}, m) = 0
<1>1. \A f, m : TokensOf(f, {}, m) = {}
  BY DEF TokensOf
<1>2. QED
  BY <1>1, FS_EmptySet DEF Total

LEMMA TotalSame ==
  ASSUME NEW R, NEW m, NEW f, NEW g, \A r \in R : f[r] = g[r]
  PROVE  Total(f, R, m) = Total(g, R, m)
<1>1. TokensOf(f, R, m) = TokensOf(g, R, m)
  BY DEF TokensOf
<1>2. QED
  BY <1>1 DEF Total

LEMMA TotalChange ==
  ASSUME NEW R, IsFiniteSet(R), NEW m \in Nat, NEW f, NEW g, NEW x \in R,
         f[x] \in 0..m, g[x] \in 0..m, \A r \in R \ {x} : f[r] = g[r]
  PROVE  Total(g, R, m) = Total(f, R, m) + g[x] - f[x]
<1>1. Total(f, R \ {x}, m) = Total(g, R \ {x}, m)
  BY TotalSame
<1>2. Total(f, R \ {x}, m) \in Nat
  BY FS_RemoveElement, TotalType
<1>3. QED
  BY <1>1, <1>2, TotalSplit

(* The fold chooses an element, adds its number and goes on without it; the*)
(* smallest set on which it differed from Total would be one element larger*)
(* than another one.                                                       *)
Debts(s) == [r \in Requests |-> Outstanding(r, s)]
LEMMA SumIsTotal ==
  ASSUME NEW s, NEW m \in Nat, IsFiniteSet(Requests),
         \A r \in Requests : Outstanding(r, s) \in 0..m
  PROVE  MapThenSumSet(LAMBDA r : Outstanding(r, s), Requests)
           = Total(Debts(s), Requests, m)
<1> DEFINE step(g, R) == IF R = {} THEN 0
                         ELSE LET x == CHOOSE x \in R : TRUE
                              IN  Outstanding(x, s) + g[R \ {x}]
           IsSum(g) == g = [R \in SUBSET Requests |-> step(g, R)]
           sum == CHOOSE g : IsSum(g)
           total == [R \in SUBSET Requests |-> Total(Debts(s), R, m)]
<1>1. MapThenSumSet(LAMBDA r : Outstanding(r, s), Requests) = sum[Requests]
  BY DEF MapThenSumSet, MapThenFoldSet
<1>2. ASSUME NEW R \in SUBSET Requests, R # {}
      PROVE  /\ (CHOOSE x \in R : TRUE) \in R
             /\ step(total, R) = Total(Debts(s), R, m)
  <2>1. PICK x : x = CHOOSE y \in R : TRUE
    OBVIOUS
  <2>2. x \in R
    BY <1>2, <2>1
  <2>3. Debts(s)[x] = Outstanding(x, s) /\ Debts(s)[x] \in 0..m
    BY <2>2 DEF Debts
  <2>4. IsFiniteSet(R)
    BY FS_Subset
  <2>5. Total(Debts(s), R, m) = Debts(s)[x] + Total(Debts(s), R \ {x}, m)
    BY <2>2, <2>3, <2>4, TotalSplit
  <2>6. step(total, R) = Outstanding(x, s) + total[R \ {x}]
    BY <1>2, <2>1
  <2>7. total[R \ {x}] = Total(Debts(s), R \ {x}, m)
    OBVIOUS
  <2>8. QED
    BY <2>1, <2>2, <2>3, <2>5, <2>6, <2>7
<1>3. IsSum(total)
  <2>1. \A R \in SUBSET Requests : Total(Debts(s), R, m) = step(total, R)
    <3>1. step(total, {}) = 0
      OBVIOUS
    <3> HIDE DEF step, total
    <3>2. QED
      BY <1>2, <3>1, TotalEmpty
  <2> HIDE DEF step
  <2>2. QED
    BY <2>1
<1>4. IsSum(sum)
  <2> HIDE DEF IsSum
  <2>1. QED
    BY <1>3
<1>5. \A R \in SUBSET Requests : sum[R] = total[R]
  <2> DEFINE Bad == {R \in SUBSET Requests : sum[R] # total[R]}
  <2>1. SUFFICES ASSUME Bad # {} PROVE FALSE
    OBVIOUS
  <2>2. IsWellFoundedOn(StrictSubsetOrdering(Requests), SUBSET Requests)
    BY FS_StrictSubsetOrderingWellFounded, FS_FiniteSubsetsOfFinite
  <2>3. Bad \subseteq SUBSET Requests
    OBVIOUS
  <2> HIDE DEF Bad
  <2>4. PICK R \in Bad : \A S \in Bad : <<S, R>> \notin StrictSubsetOrdering(Requests)
    BY <2>1, <2>2, <2>3, WFMin
  <2>5. R \in SUBSET Requests /\ sum[R] # total[R]
    BY <2>4 DEF Bad
  <2>6. sum[R] = step(sum, R) /\ total[R] = step(total, R)
    <3> HIDE DEF sum, total, step
    <3>1. QED
      BY <1>3, <1>4, <2>5
  <2>7. R # {}
    BY <2>5, <2>6
  <2>8. PICK x : x = CHOOSE y \in R : TRUE
    OBVIOUS
  <2>9. x \in R
    BY <2>7, <2>8
  <2>10. R \ {x} \in SUBSET Requests /\ <<R \ {x}, R>> \in StrictSubsetOrdering(Requests)
    BY <2>5, <2>9 DEF StrictSubsetOrdering
  <2>11. sum[R \ {x}] = total[R \ {x}]
    BY <2>4, <2>10 DEF Bad
  <2>12. /\ step(sum, R) = Outstanding(x, s) + sum[R \ {x}]
         /\ step(total, R) = Outstanding(x, s) + total[R \ {x}]
    <3> HIDE DEF sum, total
    <3>1. QED
      BY <2>7, <2>8
  <2>13. QED
    <3> HIDE DEF sum, total, step
    <3>1. QED
      BY <2>5, <2>6, <2>11, <2>12
<1>6. QED
  BY <1>1, <1>5
-----------------------------------------------------------------------------
(* What a request may still be charged.                                    *)

(* A call that is being charged is counted.                                *)
CountedWhenCharged(r) == phase[r] = "charging" => charges[r] > 0

(* The most that one request is charged to s before it is checked again.   *)
Most(s) == MaxCharges * PerCall(s)
LimitersLeft(r, s) == {i \in LimitersOf(s) : i >= at[r]}

LEMMA Products ==
  /\ \A a, b \in Nat : a * b \in Nat
  /\ \A a, b, c, d \in Nat : a <= c /\ b <= d => a * b <= c * d
  /\ \A a, b \in Nat \ {0} : a * b >= 1
<1>1. \A a, b \in Nat : a * b \in Nat
  OBVIOUS
<1>2. ASSUME NEW a \in Nat, NEW b \in Nat, NEW c \in Nat, NEW d \in Nat, a <= c, b <= d
      PROVE  a * b <= c * d
  <2>1. PICK x \in Nat, y \in Nat : c = a + x /\ d = b + y
    <3>1. c - a \in Nat /\ d - b \in Nat /\ c = a + (c - a) /\ d = b + (d - b)
      BY <1>2
    <3>2. QED
      BY <3>1
  <2>2. c * d = a * b + a * y + x * b + x * y
    BY <2>1
  <2>3. a * y \in Nat /\ x * b \in Nat /\ x * y \in Nat /\ a * b \in Nat
    BY <1>1
  <2>4. QED
    BY <2>2, <2>3
<1>3. ASSUME NEW a \in Nat \ {0}, NEW b \in Nat \ {0} PROVE a * b >= 1
  <2>1. 1 * 1 <= a * b
    BY <1>2
  <2>2. QED
    BY <2>1
<1>4. QED
  BY <1>1, <1>2, <1>3

LEMMA OneMore == \A a, b \in Nat : a * (b + 1) = a * b + a /\ a * b \in Nat
  OBVIOUS

LEMMA LimiterCounts ==
  ASSUME NEW s
  PROVE  /\ IsFiniteSet(LimitersOf(s)) /\ Cardinality(LimitersOf(s)) \in Nat
         /\ PerCall(s) \in Nat /\ Most(s) \in Nat
         /\ \A r \in Requests :
              /\ IsFiniteSet(LimitersLeft(r, s))
              /\ Cardinality(LimitersLeft(r, s)) \in Nat
              /\ Cardinality(LimitersLeft(r, s)) <= Cardinality(LimitersOf(s))
<1>1. IsFiniteSet(Positions)
  BY SomeLimiter, CountTo
<1>2. IsFiniteSet(LimitersOf(s)) /\ Cardinality(LimitersOf(s)) \in Nat
  <2>1. LimitersOf(s) \in SUBSET Positions
    BY DEF LimitersOf
  <2>2. QED
    BY <1>1, <2>1, FS_Subset, FS_CardinalityType
<1>3. PerCall(s) \in Nat /\ Most(s) \in Nat
  BY <1>2, Products, QuotaAssumption DEF QuotaAssumption, PerCall, Most
<1>4. ASSUME NEW r \in Requests
      PROVE  /\ IsFiniteSet(LimitersLeft(r, s))
             /\ Cardinality(LimitersLeft(r, s)) \in Nat
             /\ Cardinality(LimitersLeft(r, s)) <= Cardinality(LimitersOf(s))
  <2>1. LimitersLeft(r, s) \in SUBSET LimitersOf(s)
    BY DEF LimitersLeft
  <2>2. QED
    BY <1>2, <2>1, FS_Subset, FS_CardinalityType
<1>5. QED
  BY <1>2, <1>3, <1>4

LEMMA OutstandingType ==
  ASSUME QuotaInv, NEW r \in Requests, CountedWhenCharged(r), NEW s
  PROVE  Outstanding(r, s) \in 0..Most(s)
<1> DEFINE K == Cardinality(LimitersLeft(r, s))
           P == PerCall(s)
<1>1. /\ P \in Nat /\ K \in Nat /\ Most(s) \in Nat /\ Most(s) = MaxCharges * P
      /\ MaxCharges \in Nat /\ charges[r] \in 0..MaxCharges
      /\ MaxCost \in Nat /\ cost[r] \in 0..MaxCost
  <2>1. P \in Nat /\ K \in Nat /\ Most(s) \in Nat
    BY LimiterCounts
  <2>2. Most(s) = MaxCharges * P
    BY DEF Most
  <2>3. /\ MaxCharges \in Nat /\ charges[r] \in 0..MaxCharges
        /\ MaxCost \in Nat /\ cost[r] \in 0..MaxCost
    BY QuotaAssumption DEF QuotaAssumption, QuotaInv, TypeOK
  <2>4. QED
    BY <2>1, <2>2, <2>3
<1>2. cost[r] * K \in Nat /\ cost[r] * K <= P
  <2>1. PICK n \in Nat : n = Cardinality(LimitersOf(s)) /\ K <= n /\ P = MaxCost * n
    BY LimiterCounts DEF PerCall
  <2>2. cost[r] \in Nat /\ cost[r] <= MaxCost
    BY <1>1
  <2> HIDE DEF K, P
  <2>3. QED
    BY <1>1, <2>1, <2>2, Products
<1>3. Outstanding(r, s) =
        IF ~Passed(r, s) THEN 0
        ELSE P * (MaxCharges - charges[r]) + (IF phase[r] = "charging" THEN cost[r] * K ELSE 0)
  BY DEF Outstanding, LimitersLeft
<1> HIDE DEF K, P
<1>4. PICK n \in Nat : n = MaxCharges - charges[r] /\ n <= MaxCharges
  BY <1>1
<1>5. P * n \in Nat /\ P * n <= Most(s)
  <2>1. P * n \in Nat /\ P * n <= P * MaxCharges
    BY <1>1, <1>4, Products
  <2>2. P * MaxCharges = MaxCharges * P
    BY <1>1
  <2>3. QED
    BY <1>1, <2>1, <2>2
<1>6. CASE phase[r] = "charging"
  <2>1. n + 1 <= MaxCharges
    BY <1>1, <1>4, <1>6 DEF CountedWhenCharged
  <2>2. P * (n + 1) <= P * MaxCharges
    BY <1>1, <2>1, Products
  <2>3. P * (n + 1) = P * n + P /\ P * MaxCharges = MaxCharges * P
    BY <1>1, OneMore
  <2>4. P * n + cost[r] * K \in 0..Most(s)
    <3>1. PICK a \in Nat, b \in Nat : a = P * n /\ b = cost[r] * K
      BY <1>2, <1>5
    <3>2. a + P <= Most(s) /\ b <= P
      BY <1>1, <1>2, <2>2, <2>3, <3>1
    <3>3. a + b \in 0..Most(s)
      BY <1>1, <3>2
    <3>4. QED
      BY <3>1, <3>3
  <2>5. QED
    BY <1>1, <1>3, <1>4, <1>6, <2>4
<1>7. CASE phase[r] # "charging"
  BY <1>1, <1>3, <1>4, <1>5, <1>7
<1>8. QED
  BY <1>6, <1>7
-----------------------------------------------------------------------------
(* The balance of a subject, less what the requests may still be charged   *)
(* to it.                                                                  *)
Bound(s) == 1 - Cardinality(Requests) * Most(s)
Balance(s) == available[s] - Total(Debts(s), Requests, Most(s))
BalanceInv ==
  /\ \A r \in Requests : CountedWhenCharged(r)
  /\ \A s \in rows : Balance(s) >= Bound(s)

LEMMA RequestsCount ==
  /\ IsFiniteSet(Requests) /\ Cardinality(Requests) \in Nat
  /\ \A s : /\ Cardinality(Requests) * Most(s) \in Nat /\ Bound(s) \in Int
            /\ \A f : /\ Total(f, Requests, Most(s)) \in Nat
                      /\ Total(f, Requests, Most(s)) <= Cardinality(Requests) * Most(s)
<1>1. IsFiniteSet(Requests) /\ Cardinality(Requests) \in Nat
  BY QuotaAssumption, FS_CardinalityType DEF QuotaAssumption
<1>2. ASSUME NEW s
      PROVE  /\ Cardinality(Requests) * Most(s) \in Nat /\ Bound(s) \in Int
             /\ \A f : /\ Total(f, Requests, Most(s)) \in Nat
                       /\ Total(f, Requests, Most(s)) <= Cardinality(Requests) * Most(s)
  <2>1. Most(s) \in Nat
    BY LimiterCounts
  <2>2. Cardinality(Requests) * Most(s) \in Nat
    BY <1>1, <2>1, Products
  <2>3. \A f : /\ Total(f, Requests, Most(s)) \in Nat
               /\ Total(f, Requests, Most(s)) <= Cardinality(Requests) * Most(s)
    BY <1>1, <2>1, TotalType
  <2>4. QED
    BY <2>2, <2>3 DEF Bound
<1>3. QED
  BY <1>1, <1>2

(* A balance that was positive when it was looked at bears all requests.   *)
LEMMA PositiveBears ==
  ASSUME NEW s \in Subjects, available'[s] \in Int, available'[s] >= 1
  PROVE  Balance(s)' >= Bound(s)
<1>1. /\ Total(Debts(s)', Requests, Most(s)) \in Nat
      /\ Total(Debts(s)', Requests, Most(s)) <= Cardinality(Requests) * Most(s)
      /\ Cardinality(Requests) * Most(s) \in Nat
  BY RequestsCount
<1>2. QED
  BY <1>1 DEF Balance, Bound

(* One request moves: what it takes from the balance it owes no longer.    *)
LEMMA OneRequestMoves ==
  ASSUME NEW r \in Requests, NEW s \in Subjects, Balance(s) >= Bound(s),
         Outstanding(r, s) \in 0..Most(s), Outstanding(r, s)' \in 0..Most(s),
         available[s] \in Int, available'[s] \in Int,
         available[s] - available'[s] <= Outstanding(r, s) - Outstanding(r, s)',
         \A q \in Requests \ {r} : Outstanding(q, s)' = Outstanding(q, s)
  PROVE  Balance(s)' >= Bound(s)
<1>1. /\ Debts(s)[r] \in 0..Most(s) /\ Debts(s)'[r] \in 0..Most(s)
      /\ Debts(s)[r] = Outstanding(r, s) /\ Debts(s)'[r] = Outstanding(r, s)'
      /\ \A q \in Requests \ {r} : Debts(s)[q] = Debts(s)'[q]
  BY DEF Debts
<1>2. Total(Debts(s)', Requests, Most(s))
        = Total(Debts(s), Requests, Most(s)) + Debts(s)'[r] - Debts(s)[r]
  BY <1>1, RequestsCount, LimiterCounts, TotalChange
<1>3. Total(Debts(s), Requests, Most(s)) \in Nat /\ Bound(s) \in Int
  BY RequestsCount
<1>4. Most(s) \in Nat
  BY LimiterCounts
<1>5. QED
  BY <1>1, <1>2, <1>3, <1>4 DEF Balance

(* Nobody moves and the balance does not shrink.                           *)
LEMMA NobodyMoves ==
  ASSUME NEW s \in Subjects, Balance(s) >= Bound(s),
         available[s] \in Int, available'[s] \in Int, available[s] <= available'[s],
         phase' = phase, user' = user, at' = at, charges' = charges, cost' = cost
  PROVE  Balance(s)' >= Bound(s)
<1>1. Debts(s)' = Debts(s)
  BY DEF Debts, Outstanding, Passed
<1>2. Total(Debts(s), Requests, Most(s)) \in Nat /\ Bound(s) \in Int
  BY RequestsCount
<1>3. QED
  BY <1>1, <1>2 DEF Balance

(* A row without a quota comes before anybody owes anything.               *)
LEMMA NobodyOwes ==
  ASSUME NEW r \in Requests, NEW s \in Subjects, LimitersOf(s) # {},
         available'[s] = 0, \A q \in Requests : Outstanding(q, s)' = 0
  PROVE  Balance(s)' >= Bound(s)
<1>1. Total(Debts(s)', Requests, Most(s)) = 0
  <2>1. \A p \in Requests \X (1..Most(s)) : ~(p[2] <= Debts(s)'[p[1]])
    BY LimiterCounts DEF Debts
  <2>2. TokensOf(Debts(s)', Requests, Most(s)) = {}
    BY <2>1 DEF TokensOf
  <2>3. QED
    BY <2>2, FS_EmptySet DEF Total
<1>2. Cardinality(Requests) * Most(s) >= 1
  <2>1. Cardinality(LimitersOf(s)) \in Nat \ {0}
    BY LimiterCounts, FS_EmptySet
  <2>2. PerCall(s) \in Nat \ {0}
    BY <2>1, Products, QuotaAssumption DEF QuotaAssumption, PerCall
  <2>3. Most(s) \in Nat \ {0}
    BY <2>2, Products, QuotaAssumption DEF QuotaAssumption, Most
  <2>4. Cardinality(Requests) \in Nat \ {0}
    BY RequestsCount, FS_EmptySet
  <2>5. QED
    BY <2>3, <2>4, Products
<1>3. Cardinality(Requests) * Most(s) \in Nat
  BY RequestsCount
<1>4. QED
  BY <1>1, <1>2, <1>3 DEF Balance, Bound
-----------------------------------------------------------------------------
(* One lemma per kind of step.                                             *)
LEMMA UnmovedOwesTheSame ==
  ASSUME NEW q, phase'[q] = phase[q], user'[q] = user[q], at'[q] = at[q],
         charges'[q] = charges[q], cost'[q] = cost[q]
  PROVE  \A s : Outstanding(q, s)' = Outstanding(q, s)
  BY DEF Outstanding, Passed

(* One request moves: each row it leaves behind is refilled, or loses no   *)
(* more than the request owes to it no longer.                             *)
LEMMA MovedRequest ==
  ASSUME QuotaInv, QuotaInv', BalanceInv, NEW r \in Requests,
         CountedWhenCharged(r)',
         \A q \in Requests \ {r} :
           /\ phase'[q] = phase[q] /\ user'[q] = user[q] /\ at'[q] = at[q]
           /\ charges'[q] = charges[q] /\ cost'[q] = cost[q],
         \A s \in rows' :
           \/ available'[s] >= 1
           \/ /\ s \in rows
              /\ available[s] - available'[s]
                   <= Outstanding(r, s) - Outstanding(r, s)'
  PROVE  BalanceInv'
<1>1. \A q \in Requests : CountedWhenCharged(q)'
  BY DEF BalanceInv, CountedWhenCharged
<1>2. ASSUME NEW s \in rows' PROVE Balance(s)' >= Bound(s)
  <2>1. s \in Subjects /\ available'[s] \in Int /\ available[s] \in Int
    BY DEF QuotaInv, TypeOK
  <2>2. Outstanding(r, s) \in 0..Most(s)
    BY OutstandingType DEF BalanceInv
  <2>3. Outstanding(r, s)' \in 0..Most(s)
    <3>1. CountedWhenCharged(r)' /\ QuotaInv'
      BY <1>1
    <3>2. (QuotaInv /\ CountedWhenCharged(r) => Outstanding(r, s) \in 0..Most(s))'
      BY OutstandingType, PTL
    <3>3. QED
      BY <3>1, <3>2
  <2>4. \A q \in Requests \ {r} : Outstanding(q, s)' = Outstanding(q, s)
    BY UnmovedOwesTheSame
  <2>5. CASE available'[s] >= 1
    BY <2>1, <2>5, PositiveBears
  <2>6. CASE s \in rows /\ available[s] - available'[s]
                             <= Outstanding(r, s) - Outstanding(r, s)'
    BY <2>1, <2>2, <2>3, <2>4, <2>6, OneRequestMoves DEF BalanceInv
  <2>7. QED
    BY <2>5, <2>6
<1>3. QED
  BY <1>1, <1>2 DEF BalanceInv, Bound

LEMMA EndBalance ==
  ASSUME QuotaInv, QuotaInv', BalanceInv, NEW r \in Requests, End(r),
         user' = user, available' = available, rows' = rows
  PROVE  BalanceInv'
<1>1. /\ phase'[r] = "idle"
      /\ \A q \in Requests \ {r} :
           /\ phase'[q] = phase[q] /\ user'[q] = user[q] /\ at'[q] = at[q]
           /\ charges'[q] = charges[q] /\ cost'[q] = cost[q]
  BY DEF End, Goto, QuotaInv, TypeOK
<1>2. CountedWhenCharged(r)' /\ \A s : Outstanding(r, s)' = 0
  BY <1>1 DEF CountedWhenCharged, Outstanding, Passed
<1>3. ASSUME NEW s \in rows'
      PROVE  /\ s \in rows
             /\ available[s] - available'[s] <= Outstanding(r, s) - Outstanding(r, s)'
  <2>1. s \in rows /\ available[s] \in Int
    BY <1>3 DEF QuotaInv, TypeOK
  <2>2. Outstanding(r, s) \in Nat
    BY OutstandingType, LimiterCounts DEF BalanceInv
  <2>3. QED
    BY <1>2, <2>1, <2>2
<1>4. QED
  BY <1>1, <1>2, <1>3, MovedRequest

(* A request that is let through owes to the subject that was checked; to  *)
(* the others it owes what it owed.                                        *)
LEMMA OthersOweTheSame ==
  ASSUME QuotaInv, NEW r \in Requests,
         phase[r] \in {"check", "init"}, user' = user,
         Continue(r, "check", "working"), UNCHANGED <<charges, cost>>,
         NEW s, s # SubjectAt(at[r], user[r])
  PROVE  Outstanding(r, s)' = Outstanding(r, s)
<1>1. /\ at[r] \in 1..Len(Limiters) /\ Len(Limiters) \in Nat \ {0}
      /\ Positions = 1..Len(Limiters)
  BY SomeLimiter DEF QuotaInv, TypeOK
<1>2. /\ phase'[r] = (IF at[r] = Len(Limiters) THEN "working" ELSE "check")
      /\ at'[r] = (IF at[r] = Len(Limiters) THEN 1 ELSE at[r] + 1)
      /\ user'[r] = user[r] /\ charges'[r] = charges[r]
  BY DEF Continue, Goto, QuotaInv, TypeOK
<1>3. Passed(r, s)' <=> Passed(r, s)
  <2>1. CASE at[r] = Len(Limiters)
    <3>1. Passed(r, s)' <=> \E i \in Positions : SubjectAt(i, user[r]) = s
      BY <1>2, <2>1 DEF Passed, SubjectAt
    <3>2. Passed(r, s) <=> \E i \in 1..(at[r] - 1) : SubjectAt(i, user[r]) = s
      BY DEF Passed
    <3>3. \A i \in Positions : i \in 1..(at[r] - 1) \/ i = at[r]
      BY <1>1, <2>1
    <3>4. QED
      BY <1>1, <3>1, <3>2, <3>3
  <2>2. CASE at[r] # Len(Limiters)
    <3>1. Passed(r, s)' <=> \E i \in 1..((at[r] + 1) - 1) : SubjectAt(i, user[r]) = s
      BY <1>2, <2>2 DEF Passed, SubjectAt
    <3>2. Passed(r, s) <=> \E i \in 1..(at[r] - 1) : SubjectAt(i, user[r]) = s
      BY DEF Passed
    <3>3. /\ \A i \in 1..((at[r] + 1) - 1) : i \in 1..(at[r] - 1) \/ i = at[r]
          /\ \A i \in 1..(at[r] - 1) : i \in 1..((at[r] + 1) - 1)
      BY <1>1
    <3>4. QED
      BY <3>1, <3>2, <3>3
  <2>3. QED
    BY <2>1, <2>2
<1>4. phase[r] # "charging" /\ phase'[r] # "charging"
  BY <1>2
<1>5. QED
  BY <1>2, <1>3, <1>4 DEF Outstanding

LEMMA AdmitBalance ==
  ASSUME QuotaInv, QuotaInv', BalanceInv, NEW r \in Requests,
         phase[r] \in {"check", "init"}, user' = user,
         Continue(r, "check", "working"), UNCHANGED <<charges, cost>>,
         available'[SubjectAt(at[r], user[r])] >= 1,
         \A s \in rows' \ {SubjectAt(at[r], user[r])} :
           s \in rows /\ available'[s] = available[s]
  PROVE  BalanceInv'
<1>1. /\ phase'[r] = (IF at[r] = Len(Limiters) THEN "working" ELSE "check")
      /\ at'[r] = (IF at[r] = Len(Limiters) THEN 1 ELSE at[r] + 1)
      /\ user'[r] = user[r] /\ charges'[r] = charges[r]
      /\ \A q \in Requests \ {r} :
           /\ phase'[q] = phase[q] /\ user'[q] = user[q] /\ at'[q] = at[q]
           /\ charges'[q] = charges[q] /\ cost'[q] = cost[q]
  BY DEF Continue, Goto, QuotaInv, TypeOK
<1>2. CountedWhenCharged(r)'
  BY <1>1 DEF CountedWhenCharged
<1>3. \A s : s # SubjectAt(at[r], user[r]) => Outstanding(r, s)' = Outstanding(r, s)
  BY OthersOweTheSame
<1>4. ASSUME NEW s \in rows'
      PROVE  \/ available'[s] >= 1
             \/ /\ s \in rows
                /\ available[s] - available'[s] <= Outstanding(r, s) - Outstanding(r, s)'
  <2>1. CASE s = SubjectAt(at[r], user[r])
    BY <2>1
  <2>2. CASE s # SubjectAt(at[r], user[r])
    <3>1. s \in rows /\ available'[s] = available[s] /\ available[s] \in Int
      BY <2>2 DEF QuotaInv, TypeOK
    <3>2. Outstanding(r, s)' = Outstanding(r, s) /\ Outstanding(r, s) \in Nat
      BY <1>3, <2>2, OutstandingType, LimiterCounts DEF BalanceInv
    <3>3. QED
      BY <3>1, <3>2
  <2>3. QED
    BY <2>1, <2>2
<1>5. QED
  BY <1>1, <1>2, <1>4, MovedRequest

LEMMA ArriveBalance ==
  ASSUME QuotaInv, QuotaInv', BalanceInv, NEW r \in Requests, Arrive(r)
  PROVE  BalanceInv'
<1>1. /\ phase[r] = "idle" /\ phase'[r] = "check" /\ at'[r] = 1
      /\ rows' = rows /\ available' = available
      /\ \A q \in Requests \ {r} :
           /\ phase'[q] = phase[q] /\ user'[q] = user[q] /\ at'[q] = at[q]
           /\ charges'[q] = charges[q] /\ cost'[q] = cost[q]
  BY DEF Arrive, Goto, table, QuotaInv, TypeOK, StartsAtFirst
<1>2. CountedWhenCharged(r)'
  BY <1>1 DEF CountedWhenCharged
<1>3. \A s : Outstanding(r, s) = 0 /\ Outstanding(r, s)' = 0
  <2>1. 1..(1 - 1) = {}
    OBVIOUS
  <2>2. QED
    BY <1>1, <2>1 DEF Outstanding, Passed
<1>4. \A s \in rows' : available[s] \in Int
  BY <1>1 DEF QuotaInv, TypeOK
<1>5. QED
  BY <1>1, <1>2, <1>3, <1>4, MovedRequest

LEMMA ReadBalance ==
  ASSUME QuotaInv, QuotaInv', BalanceInv, NEW r \in Requests, Read(r)
  PROVE  BalanceInv'
<1>1. PICK s : s = SubjectAt(at[r], user[r])
  OBVIOUS
<1>2. /\ phase[r] = "check" /\ rows' = rows /\ available' = available /\ user' = user
  BY DEF Read, table
<1>3. CASE End(r)
  BY <1>2, <1>3, EndBalance
<1>4. CASE /\ available[s] > 0 /\ Continue(r, "check", "working")
           /\ UNCHANGED <<charges, cost>> /\ s \in rows
  <2>1. available'[s] >= 1
    BY <1>2, <1>4 DEF QuotaInv, TypeOK
  <2>2. QED
    BY <1>1, <1>2, <1>4, <2>1, AdmitBalance
<1>5. CASE Goto(r, "init") /\ UNCHANGED <<at, charges, cost>>
  <2>1. /\ phase'[r] = "init"
        /\ \A q \in Requests \ {r} :
             /\ phase'[q] = phase[q] /\ user'[q] = user[q] /\ at'[q] = at[q]
             /\ charges'[q] = charges[q] /\ cost'[q] = cost[q]
    BY <1>2, <1>5 DEF Goto, QuotaInv, TypeOK
  <2>2. CountedWhenCharged(r)'
    BY <2>1 DEF CountedWhenCharged
  <2>3. \A t : Outstanding(r, t)' = Outstanding(r, t)
    BY <1>2, <1>5, <2>1 DEF Outstanding, Passed
  <2>4. \A t \in rows : available[t] \in Int /\ Outstanding(r, t) \in Nat
    BY OutstandingType, LimiterCounts DEF BalanceInv, QuotaInv, TypeOK
  <2>5. QED
    BY <1>2, <2>1, <2>2, <2>3, <2>4, MovedRequest
<1>6. QED
  BY <1>1, <1>3, <1>4, <1>5 DEF Read, Admit

(* The limiters of a subject are those that check it.                      *)
LEMMA LimiterOfSubject ==
  ASSUME NEW i \in Positions, NEW u \in Users
  PROVE  /\ i \in LimitersOf(SubjectAt(i, u))
         /\ \A j \in Positions :
              i \in LimitersOf(SubjectAt(j, u)) => SubjectAt(i, u) = SubjectAt(j, u)
<1>1. \A k \in Positions : Limiters[k].type \in {"u", "c"}
  BY SomeLimiter
<1>2. u # Cluster
  BY QuotaAssumption DEF QuotaAssumption
<1>3. QED
  BY <1>1, <1>2 DEF LimitersOf, SubjectAt, TypeOf

(* Nobody owes to a subject that has no row yet.                           *)
LEMMA NoRowNoDebt ==
  ASSUME QuotaInv, NEW q \in Requests, NEW s, s \notin rows
  PROVE  Outstanding(q, s) = 0
<1>1. ~Passed(q, s)
  <2>1. at[q] \in 1..Len(Limiters) /\ Len(Limiters) \in Nat /\ Positions = 1..Len(Limiters)
    BY SomeLimiter DEF QuotaInv, TypeOK
  <2>2. \A i \in 1..(at[q] - 1) : i \in Positions /\ i < at[q]
    BY <2>1
  <2>3. QED
    BY <2>2 DEF QuotaInv, ChargedHasRows, PassedHaveRows, Passed
<1>2. QED
  BY <1>1 DEF Outstanding

LEMMA InitQuotaBalance ==
  ASSUME QuotaInv, QuotaInv', BalanceInv, NEW r \in Requests, InitQuota(r)
  PROVE  BalanceInv'
<1>1. PICK s, initial : s = SubjectAt(at[r], user[r]) /\ initial = Limiters[at[r]].initial
  OBVIOUS
<1>2. phase[r] = "init" /\ user' = user
  BY DEF InitQuota
<1>3. s \in Subjects /\ initial \in Nat
  BY <1>1, SubjectsOfLimiters, SomeLimiter DEF QuotaInv, TypeOK
<1>4. CASE End(r) /\ UNCHANGED table
  BY <1>2, <1>4, EndBalance DEF table
<1>5. CASE /\ s \notin rows /\ rows' = rows \cup {s}
           /\ available' = [available EXCEPT ![s] = initial]
           /\ Admit(r, initial)
  <2>1. available'[s] = initial /\ \A t \in rows : available'[t] = available[t]
    BY <1>3, <1>5 DEF QuotaInv, TypeOK
  <2>2. CASE Continue(r, "check", "working") /\ UNCHANGED <<charges, cost>> /\ initial > 0
    <3>1. \A t \in rows' \ {s} : t \in rows /\ available'[t] = available[t]
      BY <1>5, <2>1
    <3>2. available'[s] >= 1
      BY <1>3, <2>1, <2>2
    <3>3. QED
      BY <1>1, <1>2, <2>2, <3>1, <3>2, AdmitBalance
  <2>3. CASE End(r) /\ initial <= 0
    <3>1. /\ phase'[r] = "idle"
          /\ \A q \in Requests \ {r} :
               /\ phase'[q] = phase[q] /\ user'[q] = user[q] /\ at'[q] = at[q]
               /\ charges'[q] = charges[q] /\ cost'[q] = cost[q]
      BY <1>2, <2>3 DEF End, Goto, QuotaInv, TypeOK
    <3>2. CountedWhenCharged(r)' /\ \A t : Outstanding(r, t)' = 0
      BY <3>1 DEF CountedWhenCharged, Outstanding, Passed
    <3>3. \A q \in Requests : CountedWhenCharged(q)'
      BY <3>1, <3>2 DEF BalanceInv, CountedWhenCharged
    <3>4. Balance(s)' >= Bound(s)
      <4>1. \A q \in Requests : Outstanding(q, s)' = 0
        BY <1>5, <3>1, <3>2, NoRowNoDebt, UnmovedOwesTheSame
      <4>2. at[r] \in LimitersOf(s)
        BY <1>1, LimiterOfSubject DEF QuotaInv, TypeOK
      <4>3. available'[s] = 0
        BY <1>3, <2>1, <2>3
      <4>4. QED
        BY <1>3, <4>1, <4>2, <4>3, NobodyOwes
    <3>5. ASSUME NEW t \in rows PROVE Balance(t)' >= Bound(t)
      <4>1. t \in Subjects /\ available[t] \in Int /\ available'[t] = available[t]
        BY <2>1 DEF QuotaInv, TypeOK
      <4>2. Outstanding(r, t) \in 0..Most(t) /\ Most(t) \in Nat
        BY OutstandingType, LimiterCounts DEF BalanceInv
      <4>3. \A q \in Requests \ {r} : Outstanding(q, t)' = Outstanding(q, t)
        BY <3>1, UnmovedOwesTheSame
      <4>4. /\ Outstanding(r, t)' \in 0..Most(t)
            /\ available[t] - available'[t] <= Outstanding(r, t) - Outstanding(r, t)'
        BY <3>2, <4>1, <4>2
      <4>5. QED
        BY <4>1, <4>2, <4>3, <4>4, OneRequestMoves DEF BalanceInv
    <3>6. QED
      BY <1>5, <3>3, <3>4, <3>5 DEF BalanceInv, Bound
  <2>4. QED
    BY <1>5, <2>2, <2>3 DEF Admit
<1>6. QED
  BY <1>1, <1>4, <1>5 DEF InitQuota

(* A call of the model costs the request no more than the share of it that *)
(* it was let through with.                                                *)
LEMMA CallsAreWithinTheShare ==
  ASSUME QuotaInv, NEW r \in Requests, LLMCall(r), NEW s
  PROVE  Outstanding(r, s) - Outstanding(r, s)' >= 0
<1>1. PICK c \in 1..MaxCost : cost' = [cost EXCEPT ![r] = c]
  BY DEF LLMCall
<1>2. /\ phase[r] = "working" /\ phase'[r] = "charging" /\ cost'[r] = c
      /\ charges[r] \in 0..MaxCharges /\ charges[r] < MaxCharges
      /\ charges'[r] = charges[r] + 1 /\ user' = user /\ at' = at
  BY <1>1 DEF LLMCall, Goto, QuotaInv, TypeOK
<1>3. PICK n \in Nat : n = MaxCharges - charges'[r] /\ MaxCharges - charges[r] = n + 1
  <2>1. PICK k \in Nat, M \in Nat : k = charges[r] /\ M = MaxCharges /\ k < M
    BY <1>2, QuotaAssumption DEF QuotaAssumption
  <2>2. M - (k + 1) \in Nat /\ M - k = (M - (k + 1)) + 1
    BY <2>1
  <2>3. QED
    BY <1>2, <2>1, <2>2
<1>4. PICK P \in Nat, K \in Nat : /\ P = PerCall(s)
                                  /\ K = Cardinality({i \in LimitersOf(s) : i >= at[r]})
                                  /\ K <= Cardinality(LimitersOf(s))
  BY LimiterCounts DEF LimitersLeft
<1>5. c * K \in Nat /\ c * K <= P
  <2>1. c \in Nat /\ MaxCost \in Nat /\ c <= MaxCost
    BY <1>1, QuotaAssumption DEF QuotaAssumption
  <2>2. Cardinality(LimitersOf(s)) \in Nat
    BY LimiterCounts
  <2>3. QED
    BY <1>4, <2>1, <2>2, Products DEF PerCall
<1>6. Passed(r, s)' <=> Passed(r, s)
  BY <1>2 DEF Passed
<1>7. /\ Passed(r, s) => /\ Outstanding(r, s) = P * (n + 1)
                         /\ Outstanding(r, s)' = P * n + c * K
      /\ ~Passed(r, s) => Outstanding(r, s) = 0 /\ Outstanding(r, s)' = 0
  <2>1. phase[r] # "charging" /\ P * (n + 1) \in Nat
    BY <1>2, <1>3, <1>4, Products
  <2>2. PerCall(s)' = PerCall(s) /\ LimitersOf(s)' = LimitersOf(s)
    BY DEF PerCall, LimitersOf
  <2>3. Passed(r, s) => Outstanding(r, s) = P * (n + 1)
    BY <1>3, <1>4, <2>1 DEF Outstanding
  <2>4. Passed(r, s) => Outstanding(r, s)' = P * n + c * K
    BY <1>2, <1>3, <1>4, <1>6, <2>2 DEF Outstanding
  <2>5. QED
    BY <1>6, <2>3, <2>4 DEF Outstanding
<1>8. P * (n + 1) = P * n + P /\ P * n \in Nat
  BY OneMore
<1>9. QED
  BY <1>4, <1>5, <1>7, <1>8

LEMMA LLMCallBalance ==
  ASSUME QuotaInv, QuotaInv', BalanceInv, NEW r \in Requests, LLMCall(r)
  PROVE  BalanceInv'
<1>1. PICK c \in 1..MaxCost : cost' = [cost EXCEPT ![r] = c]
  BY DEF LLMCall
<1>2. /\ phase[r] = "working" /\ phase'[r] = "charging" /\ cost'[r] = c
      /\ charges[r] \in 0..MaxCharges /\ charges[r] < MaxCharges
      /\ charges'[r] = charges[r] + 1
      /\ rows' = rows /\ available' = available /\ user' = user /\ at' = at
      /\ \A q \in Requests \ {r} :
           /\ phase'[q] = phase[q] /\ charges'[q] = charges[q] /\ cost'[q] = cost[q]
  BY <1>1 DEF LLMCall, Goto, table, QuotaInv, TypeOK
<1>3. CountedWhenCharged(r)'
  BY <1>2, QuotaAssumption DEF QuotaAssumption, CountedWhenCharged
<1>4. \A s : Outstanding(r, s) - Outstanding(r, s)' >= 0
  BY CallsAreWithinTheShare
<1>5. ASSUME NEW s \in rows'
      PROVE  /\ s \in rows
             /\ available[s] - available'[s] <= Outstanding(r, s) - Outstanding(r, s)'
  <2>1. s \in rows /\ available[s] \in Int /\ available'[s] = available[s]
    BY <1>2 DEF QuotaInv, TypeOK
  <2>2. Outstanding(r, s) - Outstanding(r, s)' >= 0
    BY <1>4
  <2>3. QED
    BY <2>1, <2>2
<1>6. QED
  BY <1>2, <1>3, <1>5, MovedRequest

(* What is charged to a limiter is no longer owed to it; the next call of  *)
(* the loop over the limiters finds one limiter less.                      *)
LEMMA ChargeIsNoLongerOwed ==
  ASSUME QuotaInv, NEW r \in Requests, Consume(r), NEW t
  PROVE  /\ cost[r] \in Nat /\ Outstanding(r, t)' \in Nat
         /\ Outstanding(r, t) = Outstanding(r, t)'
              + (IF t = SubjectAt(at[r], user[r]) THEN cost[r] ELSE 0)
<1> DEFINE s == SubjectAt(at[r], user[r])
           left == LimitersLeft(r, t)
           K == Cardinality(left)
           rest == PerCall(t) * (MaxCharges - charges[r])
           later == {i \in LimitersOf(t) : i >= at[r] + 1}
<1>1. /\ phase[r] = "charging" /\ at[r] \in Positions /\ user[r] \in Users
      /\ user' = user /\ charges' = charges
  BY DEF Consume, QuotaInv, TypeOK
<1>2. /\ phase'[r] = (IF at[r] = Len(Limiters) THEN "working" ELSE "charging")
      /\ at'[r] = (IF at[r] = Len(Limiters) THEN 1 ELSE at[r] + 1)
  BY DEF Consume, Continue, Goto, QuotaInv, TypeOK
<1>3. cost'[r] = (IF phase'[r] = "working" THEN 0 ELSE cost[r])
  BY DEF Consume, QuotaInv, TypeOK
<1>4. PICK c \in Nat : c = cost[r]
  BY QuotaAssumption DEF QuotaAssumption, QuotaInv, TypeOK
<1>5. /\ at[r] \in 1..Len(Limiters) /\ Len(Limiters) \in Nat \ {0}
      /\ Positions = 1..Len(Limiters)
  BY <1>1, SomeLimiter
<1>6. Passed(r, t)' <=> Passed(r, t)
  BY <1>1, <1>2 DEF Passed, SubjectAt
<1>7. rest \in Nat
  <2>1. MaxCharges \in Nat /\ charges[r] \in 0..MaxCharges
    BY QuotaAssumption DEF QuotaAssumption, QuotaInv, TypeOK
  <2>2. MaxCharges - charges[r] \in Nat
    BY <2>1
  <2>3. QED
    BY <2>2, LimiterCounts, Products
<1>8. K \in Nat /\ IsFiniteSet(left)
  BY LimiterCounts
<1>9. Passed(r, t) => Outstanding(r, t) = rest + c * K
  BY <1>1, <1>4 DEF Outstanding, LimitersLeft
<1>10. PICK L \in Nat : /\ L = Cardinality(left \ {at[r]})
                        /\ K = IF at[r] \in left THEN L + 1 ELSE L
  <2>1. /\ IsFiniteSet(left \ {at[r]})
        /\ Cardinality(left \ {at[r]}) = IF at[r] \in left THEN K - 1 ELSE K
    BY <1>8, FS_RemoveElement
  <2>2. Cardinality(left \ {at[r]}) \in Nat
    BY <2>1, FS_CardinalityType
  <2> HIDE DEF left
  <2>3. K = IF at[r] \in left THEN Cardinality(left \ {at[r]}) + 1
            ELSE Cardinality(left \ {at[r]})
    BY <1>8, <2>1
  <2>4. QED
    BY <2>2, <2>3
<1>11. Passed(r, t) => Outstanding(r, t)' = rest + c * L
  <2>1. SUFFICES ASSUME Passed(r, t) PROVE Outstanding(r, t)' = rest + c * L
    OBVIOUS
  <2>2. LimitersOf(t)' = LimitersOf(t) /\ PerCall(t)' = PerCall(t)
    BY DEF LimitersOf, PerCall
  <2>3. CASE at[r] = Len(Limiters)
    <3>1. phase'[r] = "working"
      BY <1>2, <2>3
    <3>2. left \ {at[r]} = {}
      BY <1>5, <2>3 DEF LimitersLeft, LimitersOf
    <3>3. Cardinality(left \ {at[r]}) = 0
      BY <3>2, FS_EmptySet
    <3>4. L = 0 /\ c * 0 = 0
      BY <1>4, <1>10, <3>3
    <3>5. Outstanding(r, t)' = rest + 0
      BY <1>1, <1>6, <2>1, <2>2, <3>1 DEF Outstanding
    <3>6. QED
      BY <3>4, <3>5
  <2>4. CASE at[r] # Len(Limiters)
    <3>1. phase'[r] = "charging" /\ at'[r] = at[r] + 1 /\ cost'[r] = c
      BY <1>2, <1>3, <1>4, <2>4
    <3>2. later = left \ {at[r]}
      BY <1>5 DEF LimitersLeft, LimitersOf
    <3>3. Outstanding(r, t)' = rest + c * Cardinality(later)
      BY <1>1, <1>6, <2>1, <2>2, <3>1 DEF Outstanding
    <3>4. QED
      BY <1>10, <3>2, <3>3
  <2>5. QED
    BY <2>3, <2>4
<1>12. c * L \in Nat /\ rest + c * L \in Nat /\ c * (L + 1) = c * L + c
  <2>1. c * L \in Nat /\ c * (L + 1) = c * L + c
    BY OneMore
  <2> HIDE DEF rest
  <2>2. QED
    BY <1>7, <2>1
<1>13. CASE t = s
  <2>1. Passed(r, t)
    BY <1>1, <1>13 DEF Passed
  <2>2. at[r] \in left
    BY <1>1, <1>5, <1>13, LimiterOfSubject DEF LimitersLeft
  <2>3. Outstanding(r, t) = rest + (c * L + c) /\ Outstanding(r, t)' = rest + c * L
    BY <1>9, <1>10, <1>11, <1>12, <2>1, <2>2
  <2>4. PICK a \in Nat, b \in Nat : a = rest /\ b = c * L
    BY <1>7, <1>12
  <2>5. a + (b + c) = (a + b) + c /\ a + b \in Nat
    BY <1>4, <2>4
  <2>6. Outstanding(r, t) = Outstanding(r, t)' + c /\ Outstanding(r, t)' \in Nat
    BY <2>3, <2>4, <2>5
  <2>7. QED
    BY <1>4, <1>13, <2>6
<1>14. CASE t # s
  <2>1. Outstanding(r, t) = Outstanding(r, t)' /\ Outstanding(r, t)' \in Nat
    <3>1. CASE Passed(r, t)
      <4>1. at[r] \notin left
        <5>1. PICK j \in Positions : SubjectAt(j, user[r]) = t
          BY <1>1, <3>1 DEF Passed
        <5>2. QED
          BY <1>1, <1>14, <5>1, LimiterOfSubject DEF LimitersLeft
      <4>2. QED
        BY <1>9, <1>10, <1>11, <1>12, <3>1, <4>1
    <3>2. CASE ~Passed(r, t)
      BY <1>6, <3>2 DEF Outstanding
    <3>3. QED
      BY <3>1, <3>2
  <2>2. Outstanding(r, t)' + 0 = Outstanding(r, t)'
    BY <2>1
  <2>3. QED
    BY <1>4, <1>14, <2>1, <2>2
<1>15. QED
  BY <1>13, <1>14

LEMMA ConsumeBalance ==
  ASSUME QuotaInv, QuotaInv', BalanceInv, NEW r \in Requests, Consume(r)
  PROVE  BalanceInv'
<1>1. PICK s : s = SubjectAt(at[r], user[r])
  OBVIOUS
<1>2. /\ phase[r] = "charging" /\ s \in rows /\ s \in Subjects
      /\ rows' = rows /\ user' = user /\ charges' = charges
      /\ available' = [available EXCEPT ![s] = available[s] - cost[r]]
  BY <1>1, SubjectsOfLimiters DEF Consume, QuotaInv, TypeOK, ChargedHasRows
<1>3. \A q \in Requests \ {r} :
        phase'[q] = phase[q] /\ at'[q] = at[q] /\ cost'[q] = cost[q]
  BY DEF Consume, Continue, Goto, QuotaInv, TypeOK
<1>4. CountedWhenCharged(r)'
  BY <1>2 DEF BalanceInv, CountedWhenCharged
<1>5. ASSUME NEW t \in rows
      PROVE  available[t] - available'[t] <= Outstanding(r, t) - Outstanding(r, t)'
  <2>1. PICK v \in Int, c \in Nat, o \in Nat :
          v = available[t] /\ c = cost[r] /\ o = Outstanding(r, t)'
    BY ChargeIsNoLongerOwed DEF QuotaInv, TypeOK
  <2>2. available'[t] = IF t = s THEN v - c ELSE v
    BY <1>2, <2>1 DEF QuotaInv, TypeOK
  <2>3. Outstanding(r, t) = o + (IF t = s THEN c ELSE 0)
    BY <1>1, <2>1, ChargeIsNoLongerOwed
  <2>4. QED
    BY <2>1, <2>2, <2>3
<1>6. QED
  BY <1>2, <1>3, <1>4, <1>5, MovedRequest

(* Renewals and time: the balance of a row does not shrink, or it is set   *)
(* to a quota above zero.                                                  *)
LEMMA TableBalance ==
  ASSUME QuotaInv, QuotaInv', BalanceInv, rows' = rows, phase' = phase,
         user' = user, at' = at, charges' = charges, cost' = cost,
         \A s \in rows : available'[s] >= 1 \/ available'[s] >= available[s]
  PROVE  BalanceInv'
<1>1. \A q \in Requests : CountedWhenCharged(q)'
  BY DEF BalanceInv, CountedWhenCharged
<1>2. ASSUME NEW s \in rows PROVE Balance(s)' >= Bound(s)
  <2>1. s \in Subjects /\ available[s] \in Int /\ available'[s] \in Int
    BY DEF QuotaInv, TypeOK
  <2>2. CASE available'[s] >= 1
    BY <2>1, <2>2, PositiveBears
  <2>3. CASE available'[s] >= available[s]
    BY <2>1, <2>3, NobodyMoves DEF BalanceInv
  <2>4. QED
    BY <2>2, <2>3
<1>3. QED
  BY <1>1, <1>2 DEF BalanceInv, Bound

LEMMA SchedulerBalance ==
  ASSUME QuotaInv, QuotaInv', BalanceInv, Scheduler \/ Tick
  PROVE  BalanceInv'
<1>1. ASSUME NEW i \in Positions, Increase(i) PROVE BalanceInv'
  <2>1. /\ rows' = rows /\ phase' = phase
        /\ user' = user /\ at' = at /\ charges' = charges /\ cost' = cost
    BY <1>1 DEF Increase, locals
  <2>2. Limiters[i].increase \in Nat
    BY SomeLimiter
  <2>3. PICK due : \/ available' = [s \in Subjects |-> available[s] +
                                     (IF s \in due THEN Limiters[i].increase ELSE 0)]
                   \/ available' = available
    BY <1>1 DEF Increase
  <2>4. ASSUME NEW s \in rows PROVE available'[s] >= available[s]
    <3>1. s \in Subjects /\ available[s] \in Int
      BY DEF QuotaInv, TypeOK
    <3>2. QED
      BY <2>2, <2>3, <3>1
  <2>5. QED
    BY <2>1, <2>4, TableBalance
<1>2. ASSUME NEW i \in Positions, Reset(i) PROVE BalanceInv'
  <2>1. /\ rows' = rows /\ phase' = phase
        /\ user' = user /\ at' = at /\ charges' = charges /\ cost' = cost
    BY <1>2 DEF Reset, locals
  <2>2. Limiters[i].initial \in Nat
    BY SomeLimiter
  <2>3. PICK due : /\ available' = [s \in Subjects |-> IF s \in due THEN Limiters[i].initial
                                                       ELSE available[s]]
                   /\ due # {} => Limiters[i].initial > 0
    BY <1>2 DEF Reset
  <2>4. ASSUME NEW s \in rows PROVE available'[s] >= 1 \/ available'[s] >= available[s]
    <3>1. s \in Subjects /\ available[s] \in Int
      BY DEF QuotaInv, TypeOK
    <3>2. QED
      BY <2>2, <2>3, <3>1
  <2>5. QED
    BY <2>1, <2>4, TableBalance
<1>3. CASE SkipLimiter \/ Tick
  <2>1. /\ rows' = rows /\ phase' = phase /\ available' = available
        /\ user' = user /\ at' = at /\ charges' = charges /\ cost' = cost
    BY <1>3 DEF SkipLimiter, Tick, table, locals
  <2>2. \A s \in rows : available'[s] >= available[s]
    BY <2>1 DEF QuotaInv, TypeOK
  <2>3. QED
    BY <2>1, <2>2, TableBalance
<1>4. QED
  BY <1>1, <1>2, <1>3 DEF Scheduler

LEMMA BalanceInvHolds == Spec => []BalanceInv
<1>1. Init => BalanceInv
  BY DEF Init, BalanceInv, CountedWhenCharged
<1>2. QuotaInv /\ QuotaInv' /\ BalanceInv /\ [Next]_vars => BalanceInv'
  <2>1. SUFFICES ASSUME QuotaInv, QuotaInv', BalanceInv, [Next]_vars
                 PROVE  BalanceInv'
    OBVIOUS
  <2>2. CASE UNCHANGED vars
    <3>1. \A s \in rows : available[s] >= available[s]
      BY <2>1 DEF QuotaInv, TypeOK
    <3>2. QED
      BY <2>1, <2>2, <3>1, TableBalance DEF vars, table, locals
  <2>3. ASSUME NEW r \in Requests, Finish(r) \/ StatementFails(r)
        PROVE  BalanceInv'
    BY <2>1, <2>3, EndBalance DEF Finish, StatementFails, table
  <2>4. CASE Next
    BY <2>1, <2>3, <2>4, ArriveBalance, ReadBalance, InitQuotaBalance,
       LLMCallBalance, ConsumeBalance, SchedulerBalance DEF Next, RequestStep
  <2>5. QED
    BY <2>1, <2>2, <2>4
<1>3. QED
  BY <1>1, <1>2, QuotaInvHolds, PTL DEF Spec

(* Quotas are checked before the answer and consumed after it, by any      *)
(* number of requests in any number of workers, for any limiters: a        *)
(* subject never owes more than what the requests that can run at once use *)
(* in one go, counting what they have not been charged yet.                *)
THEOREM DebtIsBounded == Spec => []OverspendBounded
<1>1. QuotaInv /\ BalanceInv => OverspendBounded
  <2>1. SUFFICES ASSUME QuotaInv, BalanceInv, NEW s \in rows
                 PROVE  available[s] - MapThenSumSet(LAMBDA r : Outstanding(r, s), Requests)
                          >= 1 - Cardinality(Requests) * MaxCharges * PerCall(s)
    BY DEF OverspendBounded
  <2>2. \A r \in Requests : Outstanding(r, s) \in 0..Most(s)
    BY <2>1, OutstandingType DEF BalanceInv
  <2>3. MapThenSumSet(LAMBDA r : Outstanding(r, s), Requests)
          = Total(Debts(s), Requests, Most(s))
    BY <2>2, SumIsTotal, RequestsCount, LimiterCounts
  <2>4. Cardinality(Requests) * MaxCharges * PerCall(s) = Cardinality(Requests) * Most(s)
    <3>1. PICK n \in Nat, m \in Nat, p \in Nat :
            n = Cardinality(Requests) /\ m = MaxCharges /\ p = PerCall(s)
      BY RequestsCount, LimiterCounts, QuotaAssumption DEF QuotaAssumption
    <3>2. n * m * p = n * (m * p)
      BY <3>1
    <3>3. QED
      BY <3>1, <3>2 DEF Most
  <2>5. QED
    BY <2>1, <2>3, <2>4 DEF BalanceInv, Balance, Bound
<1>2. QED
  BY <1>1, QuotaInvHolds, BalanceInvHolds, PTL
-----------------------------------------------------------------------------
(* The steps of the ledger.  What request r owes changes; the others are   *)
(* not affected.                                                           *)
FreshCharges(r) == phase[r] \in {"idle", "check", "init"} => charges[r] = 0
Fresh == \A r \in Requests : FreshCharges(r)
OthersOwe(r) ==
  \A q \in Requests \ {r}, s \in Subjects : Outstanding(q, s)' = Outstanding(q, s)

LEMMA LedgerRelease ==
  ASSUME NEW r \in Requests, rows' = rows, available' = available, OthersOwe(r),
         \A s \in Subjects : Outstanding(r, s)' \in 0..Outstanding(r, s)
  PROVE  Account!Release(r)
  BY DEF Account!Release, OthersOwe

LEMMA LedgerGrant ==
  ASSUME NEW r \in Requests, NEW s \in Subjects, s \in rows, available[s] > 0,
         rows' = rows, available' = available, OthersOwe(r),
         Outstanding(r, s)' = MaxCharges * PerCall(s),
         \A t \in Subjects \ {s} : Outstanding(r, t)' = Outstanding(r, t)
  PROVE  Account!Grant(r, s)
  BY DEF Account!Grant, OthersOwe

LEMMA LedgerSpend ==
  ASSUME NEW r \in Requests, NEW s \in Subjects, s \in rows, rows' = rows, OthersOwe(r),
         NEW n \in Nat, available' = [available EXCEPT ![s] = available[s] - n],
         available \in [Subjects -> Int],
         Outstanding(r, s)' \in Nat, Outstanding(r, s) = Outstanding(r, s)' + n,
         \A t \in Subjects \ {s} : Outstanding(r, t)' = Outstanding(r, t)
  PROVE  Account!Spend(r, s)
<1> DEFINE hold == [q \in Requests |-> [t \in Subjects |-> Outstanding(q, t)]]
<1>1. n \in 0..Outstanding(r, s) /\ Outstanding(r, s)' = Outstanding(r, s) - n
  OBVIOUS
<1>2. hold[r][s] = Outstanding(r, s)
  OBVIOUS
<1>3. hold'[r] = [hold[r] EXCEPT ![s] = Outstanding(r, s) - n]
  BY <1>1
<1>4. \A q \in Requests \ {r} : hold'[q] = hold[q]
  BY DEF OthersOwe
<1>5. hold' = [hold EXCEPT ![r][s] = @ - n]
  BY <1>2, <1>3, <1>4
<1>6. available' = [available EXCEPT ![s] = @ - n]
  OBVIOUS
<1>7. QED
  BY <1>1, <1>2, <1>5, <1>6 DEF Account!Spend

LEMMA LedgerOpen ==
  ASSUME NEW r \in Requests, NEW s \in Subjects, s \notin rows, rows' = rows \cup {s},
         NEW n \in Nat, available' = [available EXCEPT ![s] = n],
         available \in [Subjects -> Int], OthersOwe(r),
         \A q \in Requests : Outstanding(q, s) = 0,
         n > 0 => /\ Outstanding(r, s)' = MaxCharges * PerCall(s)
                  /\ \A t \in Subjects \ {s} : Outstanding(r, t)' = Outstanding(r, t),
         n = 0 => \A t \in Subjects : Outstanding(r, t)' = 0
  PROVE  Account!Open(r, s)
<1> DEFINE hold == [q \in Requests |-> [t \in Subjects |-> Outstanding(q, t)]]
           credit == [t \in Subjects |-> MaxCharges * PerCall(t)]
<1>1. available'[s] = n /\ available' = [available EXCEPT ![s] = available'[s]]
  OBVIOUS
<1>2. \A q \in Requests \ {r} : hold'[q] = hold[q]
  BY DEF OthersOwe
<1>3. CASE n > 0
  <2>1. hold'[r] = [hold[r] EXCEPT ![s] = credit[s]]
    BY <1>3
  <2>2. hold' = [hold EXCEPT ![r][s] = credit[s]]
    BY <1>2, <2>1
  <2>3. QED
    BY <1>1, <1>3, <2>2 DEF Account!Open
<1>4. CASE n = 0
  <2>1. hold'[r] = [t \in Subjects |-> 0]
    BY <1>4
  <2>2. hold' = [hold EXCEPT ![r] = [t \in Subjects |-> 0]]
    BY <1>2, <2>1
  <2>3. QED
    BY <1>1, <1>4, <2>2 DEF Account!Open, Account!Nothing
<1>5. QED
  BY <1>3, <1>4

LEMMA LedgerRenew ==
  ASSUME rows' = rows, UNCHANGED <<phase, locals>>,
         available' = [s \in Subjects |-> available'[s]],
         \A s \in Subjects : \/ available'[s] = available[s]
                             \/ s \in rows /\ (available'[s] > available[s] \/ available'[s] > 0)
  PROVE  Account!Renew
  BY DEF Account!Renew, locals, Outstanding, Passed

LEMMA LedgerIdle ==
  ASSUME rows' = rows, available' = available,
         \A q \in Requests, s \in Subjects : Outstanding(q, s)' = Outstanding(q, s)
  PROVE  UNCHANGED Account!vars
  BY DEF Account!vars

-----------------------------------------------------------------------------
(* One lemma per action: which step of the ledger it is.                   *)
LEMMA MoveIsLocal ==
  ASSUME NEW r \in Requests,
         \A q \in Requests \ {r} :
           /\ phase'[q] = phase[q] /\ user'[q] = user[q] /\ at'[q] = at[q]
           /\ charges'[q] = charges[q] /\ cost'[q] = cost[q]
  PROVE  OthersOwe(r)
  BY UnmovedOwesTheSame DEF OthersOwe

LEMMA EndOwesNothing ==
  ASSUME QuotaInv, NEW r \in Requests, End(r), user' = user
  PROVE  OthersOwe(r) /\ \A s : Outstanding(r, s)' = 0
<1>1. /\ phase'[r] = "idle"
      /\ \A q \in Requests \ {r} :
           /\ phase'[q] = phase[q] /\ user'[q] = user[q] /\ at'[q] = at[q]
           /\ charges'[q] = charges[q] /\ cost'[q] = cost[q]
  BY DEF End, Goto, QuotaInv, TypeOK
<1>2. \A s : Outstanding(r, s)' = 0
  BY <1>1 DEF Outstanding, Passed
<1>3. QED
  BY <1>1, <1>2, MoveIsLocal

LEMMA EndReleases ==
  ASSUME QuotaInv, BalanceInv, NEW r \in Requests, End(r),
         user' = user, rows' = rows, available' = available
  PROVE  Account!Release(r)
<1>1. OthersOwe(r) /\ \A s : Outstanding(r, s)' = 0
  BY EndOwesNothing
<1>2. ASSUME NEW s \in Subjects PROVE Outstanding(r, s)' \in 0..Outstanding(r, s)
  <2>1. Outstanding(r, s) \in Nat
    BY OutstandingType, LimiterCounts DEF BalanceInv
  <2>2. QED
    BY <1>1, <2>1
<1>3. QED
  BY <1>1, <1>2, LedgerRelease

(* Whoever passes a limiter has not been charged, and holds all its calls  *)
(* can cost.                                                               *)
LEMMA PassingIsCredit ==
  ASSUME QuotaInv, NEW r \in Requests, FreshCharges(r),
         phase[r] \in {"check", "init"}, user' = user,
         Continue(r, "check", "working"), UNCHANGED <<charges, cost>>,
         NEW s, s = SubjectAt(at[r], user[r])
  PROVE  /\ OthersOwe(r)
         /\ Outstanding(r, s)' = MaxCharges * PerCall(s)
         /\ \A t \in Subjects \ {s} : Outstanding(r, t)' = Outstanding(r, t)
<1>1. /\ at[r] \in 1..Len(Limiters) /\ Len(Limiters) \in Nat \ {0}
      /\ Positions = 1..Len(Limiters)
  BY SomeLimiter DEF QuotaInv, TypeOK
<1>2. /\ phase'[r] = (IF at[r] = Len(Limiters) THEN "working" ELSE "check")
      /\ at'[r] = (IF at[r] = Len(Limiters) THEN 1 ELSE at[r] + 1)
      /\ user'[r] = user[r] /\ charges'[r] = 0
  BY DEF Continue, Goto, QuotaInv, TypeOK, FreshCharges
<1>3. \A q \in Requests \ {r} :
        /\ phase'[q] = phase[q] /\ user'[q] = user[q] /\ at'[q] = at[q]
        /\ charges'[q] = charges[q] /\ cost'[q] = cost[q]
  BY DEF Continue, Goto, QuotaInv, TypeOK
<1>4. Passed(r, s)'
  <2>1. CASE at[r] = Len(Limiters)
    BY <1>1, <1>2, <2>1 DEF Passed, SubjectAt
  <2>2. CASE at[r] # Len(Limiters)
    <3>1. phase'[r] = "check" /\ at'[r] = at[r] + 1 /\ at[r] \in 1..((at[r] + 1) - 1)
      BY <1>1, <1>2, <2>2
    <3>2. QED
      BY <1>2, <3>1 DEF Passed, SubjectAt
  <2>3. QED
    BY <2>1, <2>2
<1>5. Outstanding(r, s)' = MaxCharges * PerCall(s)
  <2>1. PICK m \in Nat, p \in Nat : m = MaxCharges /\ p = PerCall(s)
    BY LimiterCounts, QuotaAssumption DEF QuotaAssumption
  <2>2. PerCall(s)' = PerCall(s) /\ phase'[r] # "charging"
    BY <1>2 DEF PerCall, LimitersOf
  <2>3. Outstanding(r, s)' = p * (m - 0) + 0
    BY <1>2, <1>4, <2>1, <2>2 DEF Outstanding
  <2>4. p * (m - 0) + 0 = m * p
    OBVIOUS
  <2>5. QED
    BY <2>1, <2>3, <2>4
<1>6. \A t \in Subjects \ {s} : Outstanding(r, t)' = Outstanding(r, t)
  BY OthersOweTheSame
<1>7. QED
  BY <1>3, <1>5, <1>6, MoveIsLocal

LEMMA ArriveIsIdle ==
  ASSUME QuotaInv, NEW r \in Requests, Arrive(r)
  PROVE  UNCHANGED Account!vars
<1>1. /\ phase[r] = "idle" /\ phase'[r] = "check" /\ at'[r] = 1
      /\ rows' = rows /\ available' = available
      /\ \A q \in Requests \ {r} :
           /\ phase'[q] = phase[q] /\ user'[q] = user[q] /\ at'[q] = at[q]
           /\ charges'[q] = charges[q] /\ cost'[q] = cost[q]
  BY DEF Arrive, Goto, table, QuotaInv, TypeOK, StartsAtFirst
<1>2. \A s : Outstanding(r, s) = 0 /\ Outstanding(r, s)' = 0
  <2>1. 1..(1 - 1) = {}
    OBVIOUS
  <2>2. QED
    BY <1>1, <2>1 DEF Outstanding, Passed
<1>3. OthersOwe(r)
  BY <1>1, MoveIsLocal
<1>4. QED
  BY <1>1, <1>2, <1>3, LedgerIdle DEF OthersOwe

LEMMA ReadGrants ==
  ASSUME QuotaInv, BalanceInv, NEW r \in Requests, FreshCharges(r), Read(r)
  PROVE  [Account!Next]_(Account!vars)
<1>1. PICK s : s = SubjectAt(at[r], user[r])
  OBVIOUS
<1>2. /\ phase[r] = "check" /\ rows' = rows /\ available' = available /\ user' = user
      /\ s \in Subjects
  BY <1>1, SubjectsOfLimiters DEF Read, table, QuotaInv, TypeOK
<1>3. CASE End(r)
  <2>1. Account!Release(r)
    BY <1>2, <1>3, EndReleases
  <2>2. QED
    BY <2>1 DEF Account!Next
<1>4. CASE /\ s \in rows /\ available[s] > 0 /\ Continue(r, "check", "working")
           /\ UNCHANGED <<charges, cost>>
  <2>1. Account!Grant(r, s)
    BY <1>1, <1>2, <1>4, PassingIsCredit, LedgerGrant
  <2>2. QED
    BY <1>2, <2>1 DEF Account!Next
<1>5. CASE Goto(r, "init") /\ UNCHANGED <<at, charges, cost>>
  <2>1. /\ phase'[r] = "init"
        /\ \A q \in Requests \ {r} :
             /\ phase'[q] = phase[q] /\ user'[q] = user[q] /\ at'[q] = at[q]
             /\ charges'[q] = charges[q] /\ cost'[q] = cost[q]
    BY <1>2, <1>5 DEF Goto, QuotaInv, TypeOK
  <2>2. \A t : Outstanding(r, t)' = Outstanding(r, t)
    BY <1>2, <1>5, <2>1 DEF Outstanding, Passed
  <2>3. OthersOwe(r)
    BY <2>1, MoveIsLocal
  <2>4. QED
    BY <1>2, <2>2, <2>3, LedgerIdle DEF OthersOwe
<1>6. QED
  BY <1>1, <1>3, <1>4, <1>5 DEF Read, Admit

LEMMA InitQuotaOpens ==
  ASSUME QuotaInv, BalanceInv, NEW r \in Requests, FreshCharges(r), InitQuota(r)
  PROVE  Account!Next
<1>1. PICK s, initial : s = SubjectAt(at[r], user[r]) /\ initial = Limiters[at[r]].initial
  OBVIOUS
<1>2. /\ phase[r] = "init" /\ user' = user /\ s \in Subjects /\ initial \in Nat
      /\ available \in [Subjects -> Int]
  BY <1>1, SubjectsOfLimiters, SomeLimiter DEF InitQuota, QuotaInv, TypeOK
<1>3. CASE End(r) /\ UNCHANGED table
  <2>1. Account!Release(r)
    BY <1>2, <1>3, EndReleases DEF table
  <2>2. QED
    BY <2>1 DEF Account!Next
<1>4. CASE /\ s \notin rows /\ rows' = rows \cup {s}
           /\ available' = [available EXCEPT ![s] = initial]
           /\ Admit(r, initial)
  <2>1. \A q \in Requests : Outstanding(q, s) = 0
    BY <1>4, NoRowNoDebt
  <2>2. CASE initial > 0 /\ Continue(r, "check", "working") /\ UNCHANGED <<charges, cost>>
    <3>1. /\ OthersOwe(r) /\ Outstanding(r, s)' = MaxCharges * PerCall(s)
          /\ \A t \in Subjects \ {s} : Outstanding(r, t)' = Outstanding(r, t)
      BY <1>1, <1>2, <2>2, PassingIsCredit
    <3>2. initial # 0
      BY <1>2, <2>2
    <3>3. Account!Open(r, s)
      BY <1>2, <1>4, <2>1, <3>1, <3>2, LedgerOpen
    <3>4. QED
      BY <1>2, <3>3 DEF Account!Next
  <2>3. CASE initial <= 0 /\ End(r)
    <3>1. OthersOwe(r) /\ \A t \in Subjects : Outstanding(r, t)' = 0
      BY <1>2, <2>3, EndOwesNothing
    <3>2. ~(initial > 0)
      BY <1>2, <2>3
    <3>3. Account!Open(r, s)
      BY <1>2, <1>4, <2>1, <3>1, <3>2, LedgerOpen
    <3>4. QED
      BY <1>2, <3>3 DEF Account!Next
  <2>4. QED
    BY <1>4, <2>2, <2>3 DEF Admit
<1>5. QED
  BY <1>1, <1>3, <1>4 DEF InitQuota

LEMMA LLMCallReleases ==
  ASSUME QuotaInv, QuotaInv', BalanceInv, BalanceInv', NEW r \in Requests, LLMCall(r)
  PROVE  Account!Release(r)
<1>1. /\ rows' = rows /\ available' = available
      /\ \A q \in Requests \ {r} :
           /\ phase'[q] = phase[q] /\ user'[q] = user[q] /\ at'[q] = at[q]
           /\ charges'[q] = charges[q] /\ cost'[q] = cost[q]
  BY DEF LLMCall, Goto, table, QuotaInv, TypeOK
<1>2. ASSUME NEW s \in Subjects PROVE Outstanding(r, s)' \in 0..Outstanding(r, s)
  <2>1. PICK m \in Nat : m = Most(s) /\ Outstanding(r, s) \in 0..m
    BY OutstandingType, LimiterCounts DEF BalanceInv
  <2>2. Outstanding(r, s)' \in 0..m
    <3>1. CountedWhenCharged(r)' /\ QuotaInv'
      BY DEF BalanceInv
    <3>2. (QuotaInv /\ CountedWhenCharged(r) => Outstanding(r, s) \in 0..Most(s))'
      BY OutstandingType, PTL
    <3>3. Most(s)' = Most(s)
      BY DEF Most, PerCall, LimitersOf
    <3>4. QED
      BY <2>1, <3>1, <3>2, <3>3
  <2>3. Outstanding(r, s) - Outstanding(r, s)' >= 0
    BY CallsAreWithinTheShare
  <2>4. QED
    BY <2>1, <2>2, <2>3
<1>3. QED
  BY <1>1, <1>2, MoveIsLocal, LedgerRelease

LEMMA ConsumeSpends ==
  ASSUME QuotaInv, NEW r \in Requests, Consume(r)
  PROVE  Account!Next
<1>1. PICK s : s = SubjectAt(at[r], user[r])
  OBVIOUS
<1>2. /\ s \in rows /\ s \in Subjects /\ rows' = rows
      /\ available' = [available EXCEPT ![s] = available[s] - cost[r]]
      /\ available \in [Subjects -> Int]
  BY <1>1, SubjectsOfLimiters DEF Consume, QuotaInv, TypeOK, ChargedHasRows
<1>3. \A q \in Requests \ {r} :
        /\ phase'[q] = phase[q] /\ user'[q] = user[q] /\ at'[q] = at[q]
        /\ charges'[q] = charges[q] /\ cost'[q] = cost[q]
  BY DEF Consume, Continue, Goto, QuotaInv, TypeOK
<1>4. /\ cost[r] \in Nat /\ Outstanding(r, s)' \in Nat
      /\ Outstanding(r, s) = Outstanding(r, s)' + cost[r]
  BY <1>1, ChargeIsNoLongerOwed
<1>5. ASSUME NEW t \in Subjects \ {s} PROVE Outstanding(r, t)' = Outstanding(r, t)
  <2>1. Outstanding(r, t)' \in Nat /\ Outstanding(r, t) = Outstanding(r, t)' + 0
    BY <1>1, <1>5, ChargeIsNoLongerOwed
  <2>2. QED
    BY <2>1
<1>6. OthersOwe(r)
  BY <1>3, MoveIsLocal
<1>7. Account!Spend(r, s)
  BY <1>2, <1>4, <1>5, <1>6, LedgerSpend
<1>8. QED
  BY <1>2, <1>7 DEF Account!Next

LEMMA SchedulerRenews ==
  ASSUME QuotaInv, Scheduler \/ Tick
  PROVE  [Account!Next]_(Account!vars)
<1>1. \A i \in Positions : Due(i) \subseteq rows
  BY DEF Due
<1>2. ASSUME NEW i \in Positions, Increase(i) PROVE Account!Renew
  <2>1. rows' = rows /\ UNCHANGED <<phase, locals>>
    BY <1>2 DEF Increase
  <2>2. PICK k \in Nat : k = Limiters[i].increase
    BY SomeLimiter
  <2>3. PICK due : /\ due \subseteq rows /\ (due # {} => k > 0)
                   /\ \/ available' = [s \in Subjects |->
                                         available[s] + (IF s \in due THEN k ELSE 0)]
                      \/ available' = available
    <3>1. CASE k > 0
      BY <1>1, <1>2, <2>2, <3>1 DEF Increase
    <3>2. CASE ~(k > 0)
      BY <1>2, <2>2, <3>2 DEF Increase
    <3>3. QED
      BY <3>1, <3>2
  <2>4. available' = [s \in Subjects |-> available'[s]]
    BY <2>3 DEF QuotaInv, TypeOK
  <2>5. ASSUME NEW s \in Subjects
        PROVE  available'[s] = available[s] \/ (s \in rows /\ available'[s] > available[s])
    <3>1. available[s] \in Int
      BY DEF QuotaInv, TypeOK
    <3>2. available'[s] = available[s]
          \/ available'[s] = available[s] + (IF s \in due THEN k ELSE 0)
      BY <2>3
    <3>3. CASE s \in due
      BY <2>3, <3>1, <3>2, <3>3
    <3>4. CASE s \notin due
      BY <3>1, <3>2, <3>4
    <3>5. QED
      BY <3>3, <3>4
  <2>6. QED
    BY <2>1, <2>4, <2>5, LedgerRenew
<1>3. ASSUME NEW i \in Positions, Reset(i) PROVE Account!Renew
  <2>1. rows' = rows /\ UNCHANGED <<phase, locals>>
    BY <1>3 DEF Reset
  <2>2. PICK k \in Nat : k = Limiters[i].initial
    BY SomeLimiter
  <2>3. PICK due : /\ due \subseteq rows /\ (due # {} => k > 0)
                   /\ available' = [s \in Subjects |-> IF s \in due THEN k ELSE available[s]]
    <3>1. CASE k > 0
      BY <1>1, <1>3, <2>2, <3>1 DEF Reset
    <3>2. CASE ~(k > 0)
      BY <1>3, <2>2, <3>2 DEF Reset
    <3>3. QED
      BY <3>1, <3>2
  <2>4. available' = [s \in Subjects |-> available'[s]]
    BY <2>3
  <2>5. ASSUME NEW s \in Subjects
        PROVE  available'[s] = available[s] \/ (s \in rows /\ available'[s] > 0)
    BY <2>3
  <2>6. QED
    BY <2>1, <2>4, <2>5, LedgerRenew
<1>4. CASE SkipLimiter \/ Tick
  <2>1. /\ rows' = rows /\ available' = available
        /\ phase' = phase /\ user' = user /\ at' = at /\ charges' = charges /\ cost' = cost
    BY <1>4 DEF SkipLimiter, Tick, table, locals
  <2>2. QED
    BY <2>1, UnmovedOwesTheSame, LedgerIdle
<1>5. QED
  BY <1>2, <1>3, <1>4 DEF Scheduler, Account!Next

(* A request that is still checked was not charged.                        *)
LEMMA FreshHolds == Spec => []Fresh
<1>1. Init => Fresh
  BY DEF Init, Fresh, FreshCharges
<1>2. QuotaInv /\ Fresh /\ [Next]_vars => Fresh'
  <2>1. SUFFICES ASSUME QuotaInv, Fresh, [Next]_vars PROVE Fresh'
    OBVIOUS
  <2>2. CASE UNCHANGED <<phase, charges>>
    BY <2>1, <2>2 DEF Fresh, FreshCharges
  <2>3. ASSUME NEW r \in Requests, RequestStep(r) PROVE Fresh'
    <3>1. CASE End(r)
      BY <2>1, <3>1 DEF End, Goto, Fresh, FreshCharges, QuotaInv, TypeOK
    <3>2. CASE UNCHANGED charges /\ phase[r] \in {"idle", "check", "init"}
                 /\ \E p : Goto(r, p)
      BY <2>1, <3>2 DEF Goto, Fresh, FreshCharges, QuotaInv, TypeOK
    <3>3. CASE LLMCall(r)
      BY <2>1, <3>3 DEF LLMCall, Goto, Fresh, FreshCharges, QuotaInv, TypeOK
    <3>4. CASE Consume(r)
      BY <2>1, <3>4 DEF Consume, Continue, Goto, Fresh, FreshCharges, QuotaInv, TypeOK
    <3>5. Arrive(r) \/ Read(r) \/ InitQuota(r)
            => \/ End(r)
               \/ /\ UNCHANGED charges /\ phase[r] \in {"idle", "check", "init"}
                  /\ \E p : Goto(r, p)
      BY DEF Arrive, Read, InitQuota, Admit, Continue
    <3>6. Finish(r) \/ StatementFails(r) => End(r)
      BY DEF Finish, StatementFails
    <3>7. QED
      BY <2>3, <3>1, <3>2, <3>3, <3>4, <3>5, <3>6 DEF RequestStep
  <2>4. Scheduler \/ Tick => UNCHANGED <<phase, charges>>
    BY DEF Scheduler, Increase, Reset, SkipLimiter, Tick, locals
  <2>5. QED
    BY <2>1, <2>2, <2>3, <2>4 DEF Next, vars, locals
<1>3. QED
  BY <1>1, <1>2, QuotaInvHolds, PTL DEF Spec

(* The limiters implement accounts with credit, for any limiters, users    *)
(* and requests in any number of workers: no charge is beyond what the     *)
(* calls of a request that was let through can cost, and a balance falls   *)
(* only by what somebody may still be charged.                             *)
THEOREM QuotasImplementLedger == Spec => ImplementsLedger
<1>1. Init => Account!Init
  <2>1. SUFFICES ASSUME Init PROVE Account!Init
    OBVIOUS
  <2>2. \A r \in Requests, s \in Subjects : Outstanding(r, s) = 0
    <3>1. 1..(1 - 1) = {}
      OBVIOUS
    <3>2. QED
      BY <2>1, <3>1 DEF Init, Outstanding, Passed
  <2>3. QED
    BY <2>1, <2>2 DEF Init, Account!Init
<1>2. /\ QuotaInv /\ QuotaInv' /\ BalanceInv /\ BalanceInv' /\ Fresh /\ [Next]_vars
      => [Account!Next]_(Account!vars)
  <2>1. SUFFICES ASSUME QuotaInv, QuotaInv', BalanceInv, BalanceInv', Fresh, [Next]_vars
                 PROVE  [Account!Next]_(Account!vars)
    OBVIOUS
  <2>2. CASE UNCHANGED vars
    <3>1. /\ rows' = rows /\ available' = available
          /\ phase' = phase /\ user' = user /\ at' = at /\ charges' = charges /\ cost' = cost
      BY <2>2 DEF vars, table, locals
    <3>2. QED
      BY <3>1, UnmovedOwesTheSame, LedgerIdle
  <2>3. ASSUME NEW r \in Requests, Finish(r) \/ StatementFails(r)
        PROVE  Account!Next
    <3>1. Account!Release(r)
      BY <2>1, <2>3, EndReleases DEF Finish, StatementFails, table
    <3>2. QED
      BY <3>1 DEF Account!Next
  <2>4. ASSUME NEW r \in Requests, LLMCall(r)
        PROVE  Account!Next
    BY <2>1, <2>4, LLMCallReleases DEF Account!Next
  <2>5. ASSUME NEW r \in Requests, RequestStep(r)
        PROVE  [Account!Next]_(Account!vars)
    <3>1. FreshCharges(r)
      BY <2>1 DEF Fresh
    <3>2. QED
      BY <2>1, <2>3, <2>4, <2>5, <3>1, ArriveIsIdle, ReadGrants, InitQuotaOpens,
         ConsumeSpends DEF RequestStep
  <2>6. QED
    BY <2>1, <2>2, <2>5, SchedulerRenews DEF Next
<1>3. QED
  BY <1>1, <1>2, QuotaInvHolds, BalanceInvHolds, FreshHolds, PTL
     DEF Spec, ImplementsLedger, Account!Spec
=============================================================================
