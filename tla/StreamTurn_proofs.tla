-------------------------- MODULE StreamTurn_proofs --------------------------
(***************************************************************************)
(* Theorems about StreamTurn, for any requests, any number of interrupts   *)
(* and with or without faults and disconnects.                             *)
(***************************************************************************)
EXTENDS StreamTurn, TLAPS

RequestInv(r) == Untouched(r) /\ CancelledFirst(r) /\ OneWrite(r) /\ OneRecorder(r)

(* A step of one request leaves the others alone.                          *)
Same(q) ==
  /\ stage'[q] = stage[q] /\ registered'[q] = registered[q]
  /\ interrupts'[q] = interrupts[q] /\ cancelled'[q] = cancelled[q]
  /\ scheduled'[q] = scheduled[q] /\ persisting'[q] = persisting[q]
  /\ guard'[q] = guard[q] /\ omitted'[q] = omitted[q]
  /\ leftToOgx'[q] = leftToOgx[q] /\ outcome'[q] = outcome[q]
  /\ writing'[q] = writing[q] /\ stored'[q] = stored[q]
  /\ answered'[q] = answered[q] /\ recorded'[q] = recorded[q]
  /\ charged'[q] = charged[q] /\ topic'[q] = topic[q]

LEMMA Frame ==
  ASSUME NEW q, RequestInv(q), Same(q)
  PROVE  RequestInv(q)'
<1>1. Untouched(q)' /\ CancelledFirst(q)'
  BY DEF RequestInv, Same, Untouched, CancelledFirst, Runs
<1>2. OneWrite(q)'
  BY DEF RequestInv, Same, OneWrite, OgxCopies
<1>3. OneRecorder(q)'
  BY DEF RequestInv, Same, OneRecorder
<1>4. QED
  BY <1>1, <1>2, <1>3 DEF RequestInv

-----------------------------------------------------------------------------
(* What starting and ending a write does to the PendingTurn.               *)

LEMMA StartWriteEffect ==
  ASSUME TypeOK, NEW r \in Requests, NEW who \in Writers,
         NEW how \in {"completed", "interrupted"}, StartWrite(r, who, how)
  PROVE  /\ outcome' \in [Requests -> Outcomes]
         /\ writing' \in [Requests -> SUBSET Writers]
         /\ \/ /\ outcome[r] = "pending" /\ outcome'[r] = how
               /\ writing'[r] = writing[r] \cup {who}
            \/ /\ outcome[r] # "pending" /\ outcome'[r] = outcome[r]
               /\ writing'[r] = writing[r]
         /\ \A q \in Requests \ {r} :
              outcome'[q] = outcome[q] /\ writing'[q] = writing[q]
<1>1. CASE outcome[r] = "pending"
  <2>1. /\ outcome' = [outcome EXCEPT ![r] = how]
        /\ writing' = [writing EXCEPT ![r] = @ \cup {who}]
    BY <1>1 DEF StartWrite
  <2>2. /\ outcome' \in [Requests -> Outcomes] /\ outcome'[r] = how
        /\ \A q \in Requests \ {r} : outcome'[q] = outcome[q]
    BY <2>1 DEF TypeOK, Outcomes
  <2>3. /\ writing' \in [Requests -> SUBSET Writers]
        /\ writing'[r] = writing[r] \cup {who}
        /\ \A q \in Requests \ {r} : writing'[q] = writing[q]
    BY <2>1 DEF TypeOK
  <2>4. QED
    BY <1>1, <2>2, <2>3
<1>2. CASE outcome[r] # "pending"
  BY <1>2 DEF StartWrite, TypeOK
<1>3. QED
  BY <1>1, <1>2

LEMMA FailedOutcome ==
  ASSUME NEW how \in Outcomes
  PROVE  /\ Failed(how) \in Outcomes
         /\ Failed(how) = "pending" <=> how = "pending"
         /\ Failed(how) \in {"completed", "failed: completed"} =>
              how \in {"completed", "failed: completed"}
BY DEF Failed, Outcomes

LEMMA WriteFailsEffect ==
  ASSUME TypeOK, NEW r \in Requests, NEW who, WriteFails(r, who)
  PROVE  /\ guard' = guard
         /\ outcome' \in [Requests -> Outcomes]
         /\ writing' \in [Requests -> SUBSET Writers]
         /\ stored' \in [Requests -> Nat]
         /\ outcome'[r] = Failed(outcome[r]) /\ writing'[r] = writing[r] \ {who}
         /\ stored'[r] = stored[r] \/ stored'[r] = stored[r] + 1
         /\ \A q \in Requests \ {r} :
              /\ outcome'[q] = outcome[q] /\ writing'[q] = writing[q]
              /\ stored'[q] = stored[q]
<1>1. /\ outcome' = [outcome EXCEPT ![r] = Failed(@)] /\ guard' = guard
      /\ writing' = [writing EXCEPT ![r] = @ \ {who}]
  BY DEF WriteFails
<1>2. PICK n \in 0..1 : stored' = [stored EXCEPT ![r] = @ + n]
  BY DEF WriteFails
<1>3. Failed(outcome[r]) \in Outcomes
  BY FailedOutcome DEF TypeOK
<1>4. /\ outcome' \in [Requests -> Outcomes] /\ outcome'[r] = Failed(outcome[r])
      /\ \A q \in Requests \ {r} : outcome'[q] = outcome[q]
  BY <1>1, <1>3 DEF TypeOK
<1>5. /\ writing' \in [Requests -> SUBSET Writers] /\ writing'[r] = writing[r] \ {who}
      /\ \A q \in Requests \ {r} : writing'[q] = writing[q]
  BY <1>1 DEF TypeOK
<1>6. /\ stored' \in [Requests -> Nat]
      /\ stored'[r] = stored[r] \/ stored'[r] = stored[r] + 1
      /\ \A q \in Requests \ {r} : stored'[q] = stored[q]
  BY <1>2 DEF TypeOK
<1>7. QED
  BY <1>1, <1>4, <1>5, <1>6

LEMMA WriteEndsEffect ==
  ASSUME TypeOK, NEW r \in Requests, NEW who, WriteEnds(r, who)
  PROVE  /\ guard' = guard
         /\ outcome' \in [Requests -> Outcomes]
         /\ writing' \in [Requests -> SUBSET Writers]
         /\ stored' \in [Requests -> Nat]
         /\ \/ /\ outcome'[r] = outcome[r] /\ writing'[r] = writing[r]
               /\ stored'[r] = stored[r]
            \/ /\ who \in writing[r] /\ writing'[r] = writing[r] \ {who}
               /\ outcome'[r] = outcome[r] \/ outcome'[r] = Failed(outcome[r])
               /\ stored'[r] = stored[r] \/ stored'[r] = stored[r] + 1
         /\ \A q \in Requests \ {r} :
              /\ outcome'[q] = outcome[q] /\ writing'[q] = writing[q]
              /\ stored'[q] = stored[q]
<1>1. CASE who \notin writing[r]
  BY <1>1 DEF WriteEnds, storeVars, TypeOK
<1>2. CASE who \in writing[r] /\ WriteFails(r, who)
  BY <1>2, WriteFailsEffect
<1>3. CASE /\ who \in writing[r] /\ guard' = guard /\ outcome' = outcome
           /\ stored' = [stored EXCEPT ![r] = @ + 1]
           /\ writing' = [writing EXCEPT ![r] = @ \ {who}]
  BY <1>3 DEF TypeOK
<1>4. QED
  BY <1>1, <1>2, <1>3 DEF WriteEnds

(* A write that ends keeps OneWrite.                                       *)
LEMMA EndedWriteCountsOnce ==
  ASSUME TypeOK, NEW r \in Requests, NEW who, OneWrite(r),
         leftToOgx'[r] = leftToOgx[r], omitted'[r] = omitted[r],
         answered'[r] = answered[r],
         \/ /\ outcome'[r] = outcome[r] /\ writing'[r] = writing[r]
            /\ stored'[r] = stored[r]
         \/ /\ who \in writing[r] /\ writing'[r] = writing[r] \ {who}
            /\ outcome'[r] = outcome[r] \/ outcome'[r] = Failed(outcome[r])
            /\ stored'[r] = stored[r] \/ stored'[r] = stored[r] + 1
  PROVE  OneWrite(r)'
<1>1. OgxCopies(r)' = OgxCopies(r) /\ OgxCopies(r) \in Nat /\ stored[r] \in Nat
  BY DEF OgxCopies, TypeOK
<1>2. outcome[r] \in Outcomes
  BY DEF TypeOK
<1>3. CASE /\ outcome'[r] = outcome[r] /\ writing'[r] = writing[r]
           /\ stored'[r] = stored[r]
  BY <1>1, <1>3 DEF OneWrite
<1>4. CASE /\ who \in writing[r] /\ writing'[r] = writing[r] \ {who}
           /\ outcome'[r] = outcome[r] \/ outcome'[r] = Failed(outcome[r])
           /\ stored'[r] = stored[r] \/ stored'[r] = stored[r] + 1
  <2>1. writing'[r] = {} /\ stored[r] = OgxCopies(r) /\ outcome[r] # "pending"
    BY <1>4 DEF OneWrite
  <2>2. /\ outcome'[r] # "pending"
        /\ outcome'[r] \in {"completed", "failed: completed"} =>
             outcome[r] \in {"completed", "failed: completed"}
    BY <1>2, <1>4, <2>1, FailedOutcome
  <2>3. stored'[r] <= OgxCopies(r)' + 1
    BY <1>1, <1>4, <2>1
  <2>4. /\ leftToOgx'[r] = ~omitted'[r] /\ omitted'[r] => ~answered'[r]
        /\ outcome'[r] \in {"completed", "failed: completed"} => omitted'[r]
    BY <2>2 DEF OneWrite
  <2>5. QED
    BY <2>1, <2>2, <2>3, <2>4 DEF OneWrite
<1>5. QED
  BY <1>3, <1>4

(* A write that starts keeps OneWrite.                                     *)
LEMMA StartedWriteIsAlone ==
  ASSUME TypeOK, NEW r \in Requests, NEW who \in Writers,
         NEW how \in {"completed", "interrupted"},
         OneWrite(r), StartWrite(r, who, how), how = "completed" => omitted[r],
         leftToOgx'[r] = leftToOgx[r], omitted'[r] = omitted[r],
         answered'[r] = answered[r], stored'[r] = stored[r]
  PROVE  OneWrite(r)'
<1>1. OgxCopies(r)' = OgxCopies(r) /\ OgxCopies(r) \in Nat /\ stored[r] \in Nat
  BY DEF OgxCopies, TypeOK
<1>2. \/ /\ outcome[r] = "pending" /\ outcome'[r] = how
         /\ writing'[r] = writing[r] \cup {who}
      \/ /\ outcome[r] # "pending" /\ outcome'[r] = outcome[r]
         /\ writing'[r] = writing[r]
  BY StartWriteEffect
<1>3. QED
  BY <1>1, <1>2 DEF OneWrite

-----------------------------------------------------------------------------
(* One lemma per action.                                                   *)
LEMMA StartStep ==
  ASSUME TypeOK, NEW r \in Requests, RequestInv(r), Start(r)
  PROVE  /\ TypeOK' /\ RequestInv(r)' /\ \A q \in Requests \ {r} : Same(q)
<1> USE DEF Start, LeftToOgx, Goto, Runs, callVars, turnVars, storeVars, bookVars
<1>1. TypeOK'
  BY StreamAssumption DEF TypeOK, Sending, Done, Outcomes, Writers, Failed
<1>2. \A q \in Requests \ {r} : Same(q)
  BY DEF TypeOK, Same
<1>3. Untouched(r)' /\ CancelledFirst(r)'
  BY DEF TypeOK, RequestInv, Untouched, CancelledFirst, OneRecorder, Accounting, Sending, Done
<1>4. OneWrite(r)'
  BY DEF TypeOK, RequestInv, Untouched, OneWrite, OgxCopies, Outcomes, Failed
<1>5. OneRecorder(r)'
  BY DEF TypeOK, RequestInv, Untouched, CancelledFirst, OneRecorder, Accounting
<1>6. QED
  BY <1>1, <1>2, <1>3, <1>4, <1>5 DEF RequestInv

LEMMA StartSentStep ==
  ASSUME TypeOK, NEW r \in Requests, RequestInv(r), StartSent(r)
  PROVE  /\ TypeOK' /\ RequestInv(r)' /\ \A q \in Requests \ {r} : Same(q)
<1> USE DEF StartSent, Goto, Runs, callVars, turnVars, storeVars, bookVars
<1>1. TypeOK'
  BY StreamAssumption DEF TypeOK, Sending, Done, Outcomes, Writers, Failed
<1>2. \A q \in Requests \ {r} : Same(q)
  BY DEF TypeOK, Same
<1>3. Untouched(r)' /\ CancelledFirst(r)'
  BY DEF TypeOK, RequestInv, Untouched, CancelledFirst, OneRecorder, Accounting, Sending, Done
<1>4. OneWrite(r)'
  BY DEF TypeOK, RequestInv, Untouched, OneWrite, OgxCopies, Outcomes, Failed
<1>5. OneRecorder(r)'
  BY DEF TypeOK, RequestInv, Untouched, CancelledFirst, OneRecorder, Accounting
<1>6. QED
  BY <1>1, <1>2, <1>3, <1>4, <1>5 DEF RequestInv

LEMMA CompactStep ==
  ASSUME TypeOK, NEW r \in Requests, RequestInv(r), Compact(r)
  PROVE  /\ TypeOK' /\ RequestInv(r)' /\ \A q \in Requests \ {r} : Same(q)
<1> USE DEF Compact, LeftToOgx, Goto, Runs, callVars, turnVars, storeVars, bookVars
<1>1. TypeOK'
  <2>1. stage' \in [Requests -> Sending \cup Done \cup
                {"new", "compacting", "streaming", "persisting", "storing", "summing"}]
    BY DEF TypeOK, Sending, Done
  <2>2. omitted' \in [Requests -> BOOLEAN]
    BY DEF TypeOK
  <2>3. leftToOgx' \in [Requests -> BOOLEAN]
    BY DEF TypeOK
  <2>4. registered' \in [Requests -> BOOLEAN]
    BY DEF TypeOK
  <2>5. QED
    BY <2>1, <2>2, <2>3, <2>4 DEF TypeOK
<1>2. \A q \in Requests \ {r} : Same(q)
  BY DEF TypeOK, Same
<1>3. Untouched(r)' /\ CancelledFirst(r)'
  BY DEF TypeOK, RequestInv, Untouched, CancelledFirst, OneRecorder, Accounting, Sending, Done
<1>4. OneWrite(r)'
  BY DEF TypeOK, RequestInv, Untouched, OneWrite, OgxCopies, Outcomes, Failed
<1>5. OneRecorder(r)'
  BY DEF TypeOK, RequestInv, Untouched, CancelledFirst, OneRecorder, Accounting
<1>6. QED
  BY <1>1, <1>2, <1>3, <1>4, <1>5 DEF RequestInv

LEMMA CompactionFailsStep ==
  ASSUME TypeOK, NEW r \in Requests, RequestInv(r), CompactionFails(r)
  PROVE  /\ TypeOK' /\ RequestInv(r)' /\ \A q \in Requests \ {r} : Same(q)
<1> USE DEF CompactionFails, Goto, Runs, callVars, turnVars, storeVars, bookVars
<1>1. TypeOK'
  BY StreamAssumption DEF TypeOK, Sending, Done, Outcomes, Writers, Failed
<1>2. \A q \in Requests \ {r} : Same(q)
  BY DEF TypeOK, Same
<1>3. Untouched(r)' /\ CancelledFirst(r)'
  BY DEF TypeOK, RequestInv, Untouched, CancelledFirst, OneRecorder, Accounting, Sending, Done
<1>4. OneWrite(r)'
  BY DEF TypeOK, RequestInv, Untouched, OneWrite, OgxCopies, Outcomes, Failed
<1>5. OneRecorder(r)'
  BY DEF TypeOK, RequestInv, Untouched, CancelledFirst, OneRecorder, Accounting
<1>6. QED
  BY <1>1, <1>2, <1>3, <1>4, <1>5 DEF RequestInv

LEMMA ForwardStep ==
  ASSUME TypeOK, NEW r \in Requests, RequestInv(r), Forward(r)
  PROVE  /\ TypeOK' /\ RequestInv(r)' /\ \A q \in Requests \ {r} : Same(q)
<1> USE DEF Forward, Goto, Runs, callVars, turnVars, storeVars, bookVars
<1>1. TypeOK'
  BY StreamAssumption DEF TypeOK, Sending, Done, Outcomes, Writers, Failed
<1>2. \A q \in Requests \ {r} : Same(q)
  BY DEF TypeOK, Same
<1>3. Untouched(r)' /\ CancelledFirst(r)'
  BY DEF TypeOK, RequestInv, Untouched, CancelledFirst, OneRecorder, Accounting, Sending, Done
<1>4. OneWrite(r)'
  BY DEF TypeOK, RequestInv, Untouched, OneWrite, OgxCopies, Outcomes, Failed
<1>5. OneRecorder(r)'
  BY DEF TypeOK, RequestInv, Untouched, CancelledFirst, OneRecorder, Accounting
<1>6. QED
  BY <1>1, <1>2, <1>3, <1>4, <1>5 DEF RequestInv

LEMMA OgxAnswersStep ==
  ASSUME TypeOK, NEW r \in Requests, RequestInv(r), OgxAnswers(r)
  PROVE  /\ TypeOK' /\ RequestInv(r)' /\ \A q \in Requests \ {r} : Same(q)
<1> USE DEF OgxAnswers, Goto, Runs, callVars, turnVars, storeVars, bookVars
<1>1. TypeOK'
  <2>1. stored' \in [Requests -> Nat]
    BY DEF TypeOK
  <2>2. answered' \in [Requests -> BOOLEAN]
    BY DEF TypeOK
  <2>3. QED
    BY <2>1, <2>2 DEF TypeOK
<1>2. \A q \in Requests \ {r} : Same(q)
  BY DEF TypeOK, Same
<1>3. Untouched(r)' /\ CancelledFirst(r)'
  BY DEF TypeOK, RequestInv, Untouched, CancelledFirst, OneRecorder, Accounting, Sending, Done
<1>4. OneWrite(r)'
  <2>1. stored'[r] = stored[r] + 1 /\ answered'[r] /\ ~answered[r] /\ ~omitted[r]
    BY DEF TypeOK
  <2>2. OgxCopies(r) = 0 /\ OgxCopies(r)' = 1 /\ stored[r] \in Nat
    BY <2>1 DEF OgxCopies, TypeOK
  <2>3. OneWrite(r) /\ outcome'[r] = outcome[r] /\ writing'[r] = writing[r]
        /\ leftToOgx'[r] = leftToOgx[r] /\ omitted'[r] = omitted[r]
    BY DEF RequestInv
  <2>4. /\ stored'[r] <= OgxCopies(r)' + 1
        /\ stored[r] = OgxCopies(r) => stored'[r] = OgxCopies(r)'
    <3>1. stored[r] <= OgxCopies(r) + 1
      BY <2>3 DEF OneWrite
    <3>2. QED
      BY <2>1, <2>2, <3>1
  <2>5. QED
    BY <2>1, <2>3, <2>4 DEF OneWrite
<1>5. OneRecorder(r)'
  BY DEF TypeOK, RequestInv, Untouched, CancelledFirst, OneRecorder, Accounting
<1>6. QED
  BY <1>1, <1>2, <1>3, <1>4, <1>5 DEF RequestInv

LEMMA ModelFailsStep ==
  ASSUME TypeOK, NEW r \in Requests, RequestInv(r), ModelFails(r)
  PROVE  /\ TypeOK' /\ RequestInv(r)' /\ \A q \in Requests \ {r} : Same(q)
<1> USE DEF ModelFails, Goto, Runs, callVars, turnVars, storeVars, bookVars
<1>1. TypeOK'
  BY StreamAssumption DEF TypeOK, Sending, Done, Outcomes, Writers, Failed
<1>2. \A q \in Requests \ {r} : Same(q)
  BY DEF TypeOK, Same
<1>3. Untouched(r)' /\ CancelledFirst(r)'
  BY DEF TypeOK, RequestInv, Untouched, CancelledFirst, OneRecorder, Accounting, Sending, Done
<1>4. OneWrite(r)'
  BY DEF TypeOK, RequestInv, Untouched, OneWrite, OgxCopies, Outcomes, Failed
<1>5. OneRecorder(r)'
  BY DEF TypeOK, RequestInv, Untouched, CancelledFirst, OneRecorder, Accounting
<1>6. QED
  BY <1>1, <1>2, <1>3, <1>4, <1>5 DEF RequestInv

LEMMA LastSentStep ==
  ASSUME TypeOK, NEW r \in Requests, RequestInv(r), LastSent(r)
  PROVE  /\ TypeOK' /\ RequestInv(r)' /\ \A q \in Requests \ {r} : Same(q)
<1> USE DEF LastSent, Deregister, Goto, Runs, callVars, turnVars, storeVars, bookVars
<1>1. TypeOK'
  BY StreamAssumption DEF TypeOK, Sending, Done, Outcomes, Writers, Failed
<1>2. \A q \in Requests \ {r} : Same(q)
  BY DEF TypeOK, Same
<1>3. Untouched(r)' /\ CancelledFirst(r)'
  BY DEF TypeOK, RequestInv, Untouched, CancelledFirst, OneRecorder, Accounting, Sending, Done
<1>4. OneWrite(r)'
  BY DEF TypeOK, RequestInv, Untouched, OneWrite, OgxCopies, Outcomes, Failed
<1>5. OneRecorder(r)'
  BY DEF TypeOK, RequestInv, Untouched, CancelledFirst, OneRecorder, Accounting
<1>6. QED
  BY <1>1, <1>2, <1>3, <1>4, <1>5 DEF RequestInv

LEMMA TopicFailsStep ==
  ASSUME TypeOK, NEW r \in Requests, RequestInv(r), TopicFails(r)
  PROVE  /\ TypeOK' /\ RequestInv(r)' /\ \A q \in Requests \ {r} : Same(q)
<1> USE DEF TopicFails, Goto, Runs, callVars, turnVars, storeVars, bookVars
<1>1. TypeOK'
  BY StreamAssumption DEF TypeOK, Sending, Done, Outcomes, Writers, Failed
<1>2. \A q \in Requests \ {r} : Same(q)
  BY DEF TypeOK, Same
<1>3. Untouched(r)' /\ CancelledFirst(r)'
  BY DEF TypeOK, RequestInv, Untouched, CancelledFirst, OneRecorder, Accounting, Sending, Done
<1>4. OneWrite(r)'
  BY DEF TypeOK, RequestInv, Untouched, OneWrite, OgxCopies, Outcomes, Failed
<1>5. OneRecorder(r)'
  BY DEF TypeOK, RequestInv, Untouched, CancelledFirst, OneRecorder, Accounting
<1>6. QED
  BY <1>1, <1>2, <1>3, <1>4, <1>5 DEF RequestInv

LEMMA ChargeStep ==
  ASSUME TypeOK, NEW r \in Requests, RequestInv(r), Charge(r)
  PROVE  /\ TypeOK' /\ RequestInv(r)' /\ \A q \in Requests \ {r} : Same(q)
<1> USE DEF Charge, Goto, Runs, callVars, turnVars, storeVars, bookVars
<1>1. TypeOK'
  <2>1. stage' \in [Requests -> Sending \cup Done \cup
                {"new", "compacting", "streaming", "persisting", "storing", "summing"}]
    BY DEF TypeOK, Sending, Done
  <2>2. charged' \in [Requests -> BOOLEAN]
    BY DEF TypeOK
  <2>3. QED
    BY <2>1, <2>2 DEF TypeOK
<1>2. \A q \in Requests \ {r} : Same(q)
  BY DEF TypeOK, Same
<1>3. Untouched(r)' /\ CancelledFirst(r)'
  BY DEF TypeOK, RequestInv, Untouched, CancelledFirst, OneRecorder, Accounting, Sending, Done
<1>4. OneWrite(r)'
  BY DEF TypeOK, RequestInv, Untouched, OneWrite, OgxCopies, Outcomes, Failed
<1>5. OneRecorder(r)'
  BY DEF TypeOK, RequestInv, Untouched, CancelledFirst, OneRecorder, Accounting
<1>6. QED
  BY <1>1, <1>2, <1>3, <1>4, <1>5 DEF RequestInv

LEMMA EndSentStep ==
  ASSUME TypeOK, NEW r \in Requests, RequestInv(r), EndSent(r)
  PROVE  /\ TypeOK' /\ RequestInv(r)' /\ \A q \in Requests \ {r} : Same(q)
<1> USE DEF EndSent, Record, Goto, Runs, callVars, turnVars, storeVars, bookVars
<1>1. TypeOK'
  <2>1. stage' \in [Requests -> Sending \cup Done \cup
                {"new", "compacting", "streaming", "persisting", "storing", "summing"}]
    BY DEF TypeOK, Sending, Done
  <2>2. recorded' \in [Requests -> Nat]
    BY DEF TypeOK
  <2>3. QED
    BY <2>1, <2>2 DEF TypeOK
<1>2. \A q \in Requests \ {r} : Same(q)
  BY DEF TypeOK, Same
<1>3. Untouched(r)' /\ CancelledFirst(r)'
  BY DEF TypeOK, RequestInv, Untouched, CancelledFirst, OneRecorder, Accounting, Sending, Done
<1>4. OneWrite(r)'
  BY DEF TypeOK, RequestInv, Untouched, OneWrite, OgxCopies, Outcomes, Failed
<1>5. OneRecorder(r)'
  BY DEF TypeOK, RequestInv, Untouched, CancelledFirst, OneRecorder, Accounting
<1>6. QED
  BY <1>1, <1>2, <1>3, <1>4, <1>5 DEF RequestInv

LEMMA InterruptStep ==
  ASSUME TypeOK, NEW r \in Requests, RequestInv(r), Interrupt(r)
  PROVE  /\ TypeOK' /\ RequestInv(r)' /\ \A q \in Requests \ {r} : Same(q)
<1> USE DEF Interrupt, Goto, Runs, callVars, turnVars, storeVars, bookVars
<1>1. TypeOK'
  <2>1. interrupts' \in [Requests -> 0..MaxInterrupts]
    BY StreamAssumption DEF TypeOK
  <2>2. scheduled' \in [Requests -> 0..MaxInterrupts]
    BY StreamAssumption DEF TypeOK, RequestInv, CancelledFirst
  <2>3. cancelled' \in [Requests -> {"no", "once", "forever"}]
    BY DEF TypeOK
  <2>4. QED
    BY <2>1, <2>2, <2>3 DEF TypeOK
<1>2. \A q \in Requests \ {r} : Same(q)
  BY DEF TypeOK, Same
<1>3. Untouched(r)' /\ CancelledFirst(r)'
  BY DEF TypeOK, RequestInv, Untouched, CancelledFirst, OneRecorder, Accounting, Sending, Done
<1>4. OneWrite(r)'
  BY DEF TypeOK, RequestInv, Untouched, OneWrite, OgxCopies, Outcomes, Failed
<1>5. OneRecorder(r)'
  <2>1. interrupts'[r] > 0 /\ stage[r] \notin Done
    BY DEF TypeOK
  <2>2. QED
    BY <2>1 DEF RequestInv, OneRecorder, CancelledFirst, Accounting, TypeOK, Done
<1>6. QED
  BY <1>1, <1>2, <1>3, <1>4, <1>5 DEF RequestInv

LEMMA TopicEndsStep ==
  ASSUME TypeOK, NEW r \in Requests, RequestInv(r), TopicEnds(r)
  PROVE  /\ TypeOK' /\ RequestInv(r)' /\ \A q \in Requests \ {r} : Same(q)
<1> USE DEF TopicEnds, Goto, Runs, callVars, turnVars, storeVars, bookVars
<1>1. TypeOK'
  <2>1. topic' \in [Requests -> {"none", "pending", "updated", "failed"}]
    BY DEF TypeOK
  <2>2. QED
    BY <2>1 DEF TypeOK
<1>2. \A q \in Requests \ {r} : Same(q)
  BY DEF TypeOK, Same
<1>3. Untouched(r)' /\ CancelledFirst(r)'
  BY DEF TypeOK, RequestInv, Untouched, CancelledFirst, OneRecorder, Accounting, Sending, Done
<1>4. OneWrite(r)'
  BY DEF TypeOK, RequestInv, Untouched, OneWrite, OgxCopies, Outcomes, Failed
<1>5. OneRecorder(r)'
  BY DEF TypeOK, RequestInv, Untouched, CancelledFirst, OneRecorder, Accounting
<1>6. QED
  BY <1>1, <1>2, <1>3, <1>4, <1>5 DEF RequestInv

LEMMA DisconnectStep ==
  ASSUME TypeOK, NEW r \in Requests, RequestInv(r), Disconnect(r)
  PROVE  /\ TypeOK' /\ RequestInv(r)' /\ \A q \in Requests \ {r} : Same(q)
<1> USE DEF Disconnect, Goto, Runs, callVars, turnVars, storeVars, bookVars
<1>1. TypeOK'
  BY StreamAssumption DEF TypeOK, Sending, Done, Outcomes, Writers, Failed
<1>2. \A q \in Requests \ {r} : Same(q)
  BY DEF TypeOK, Same
<1>3. Untouched(r)' /\ CancelledFirst(r)'
  BY DEF TypeOK, RequestInv, Untouched, CancelledFirst, OneRecorder, Accounting, Sending, Done
<1>4. OneWrite(r)'
  BY DEF TypeOK, RequestInv, Untouched, OneWrite, OgxCopies, Outcomes, Failed
<1>5. OneRecorder(r)'
  BY DEF TypeOK, RequestInv, Untouched, CancelledFirst, OneRecorder, Accounting
<1>6. QED
  BY <1>1, <1>2, <1>3, <1>4, <1>5 DEF RequestInv

LEMMA DieSendingStep ==
  ASSUME TypeOK, NEW r \in Requests, RequestInv(r), DieSending(r)
  PROVE  /\ TypeOK' /\ RequestInv(r)' /\ \A q \in Requests \ {r} : Same(q)
<1> USE DEF DieSending, Delivered, Goto, Runs, callVars, turnVars, storeVars, bookVars
<1>1. TypeOK'
  BY StreamAssumption DEF TypeOK, Sending, Done, Outcomes, Writers, Failed
<1>2. \A q \in Requests \ {r} : Same(q)
  BY DEF TypeOK, Same
<1>3. Untouched(r)' /\ CancelledFirst(r)'
  BY DEF TypeOK, RequestInv, Untouched, CancelledFirst, OneRecorder, Accounting, Sending, Done
<1>4. OneWrite(r)'
  BY DEF TypeOK, RequestInv, Untouched, OneWrite, OgxCopies, Outcomes, Failed
<1>5. OneRecorder(r)'
  BY DEF TypeOK, RequestInv, Untouched, CancelledFirst, OneRecorder, Accounting, Sending, Done
<1>6. QED
  BY <1>1, <1>2, <1>3, <1>4, <1>5 DEF RequestInv

LEMMA CloseStep ==
  ASSUME TypeOK, NEW r \in Requests, RequestInv(r), Close(r)
  PROVE  /\ TypeOK' /\ RequestInv(r)' /\ \A q \in Requests \ {r} : Same(q)
<1> USE DEF Close, Deregister, Goto, Runs, callVars, turnVars, storeVars, bookVars
<1>1. TypeOK'
  BY StreamAssumption DEF TypeOK, Sending, Done, Outcomes, Writers, Failed
<1>2. \A q \in Requests \ {r} : Same(q)
  BY DEF TypeOK, Same
<1>3. Untouched(r)' /\ CancelledFirst(r)'
  BY DEF TypeOK, RequestInv, Untouched, CancelledFirst, OneRecorder, Accounting, Sending, Done
<1>4. OneWrite(r)'
  BY DEF TypeOK, RequestInv, Untouched, OneWrite, OgxCopies, Outcomes, Failed
<1>5. OneRecorder(r)'
  BY DEF TypeOK, RequestInv, Untouched, CancelledFirst, OneRecorder, Accounting
<1>6. QED
  BY <1>1, <1>2, <1>3, <1>4, <1>5 DEF RequestInv

(* The actions that start or end a write are split into what they do to    *)
(* each variable and what follows for the invariant.                       *)

LEMMA AnswerEndsStep ==
  ASSUME TypeOK, NEW r \in Requests, RequestInv(r), AnswerEnds(r)
  PROVE  /\ TypeOK' /\ RequestInv(r)' /\ \A q \in Requests \ {r} : Same(q)
<1>1. /\ stage[r] = "streaming" /\ cancelled[r] = "no"
      /\ registered' = [registered EXCEPT ![r] = FALSE]
      /\ interrupts' = interrupts /\ scheduled' = scheduled /\ cancelled' = cancelled
      /\ persisting' = persisting /\ omitted' = omitted /\ leftToOgx' = leftToOgx
      /\ answered' = answered /\ stored' = stored
      /\ recorded' = recorded /\ charged' = charged /\ topic' = topic
  BY DEF AnswerEnds, Runs, Deregister, turnVars, bookVars
<1>2. interrupts[r] = 0 /\ recorded[r] = 0 /\ persisting[r] = {}
  BY <1>1 DEF RequestInv, CancelledFirst, OneRecorder, Runs, TypeOK
<1>3. CASE ~leftToOgx[r] /\ ~guard[r]
  <2>1. /\ guard' = [guard EXCEPT ![r] = TRUE]
        /\ stage' = [stage EXCEPT ![r] = "storing"]
        /\ StartWrite(r, "completion", "completed")
    BY <1>3 DEF AnswerEnds, Goto
  <2>2. /\ outcome' \in [Requests -> Outcomes] /\ writing' \in [Requests -> SUBSET Writers]
        /\ \A q \in Requests \ {r} : outcome'[q] = outcome[q] /\ writing'[q] = writing[q]
    BY <2>1, StartWriteEffect DEF Writers
  <2>3. TypeOK'
    BY <1>1, <2>1, <2>2 DEF TypeOK
  <2>4. \A q \in Requests \ {r} : Same(q)
    BY <1>1, <2>1, <2>2 DEF TypeOK, Same
  <2>5. Untouched(r)' /\ CancelledFirst(r)' /\ OneRecorder(r)'
    BY <1>1, <1>2, <2>1
       DEF TypeOK, RequestInv, Untouched, CancelledFirst, OneRecorder, Accounting, Done
  <2>6. omitted[r]
    BY <1>3 DEF RequestInv, OneWrite, TypeOK
  <2>7. OneWrite(r)'
    BY <1>1, <2>1, <2>6, StartedWriteIsAlone DEF RequestInv, Writers
  <2>8. QED
    BY <2>3, <2>4, <2>5, <2>7 DEF RequestInv
<1>4. CASE leftToOgx[r] \/ guard[r]
  <2>1. /\ guard' = guard /\ outcome' = outcome /\ writing' = writing
        /\ \/ stage' = [stage EXCEPT ![r] = "ended"]
           \/ stage' = [stage EXCEPT ![r] = "summing"]
    BY <1>4 DEF AnswerEnds, Goto
  <2>2. TypeOK'
    BY <1>1, <2>1 DEF TypeOK, Done
  <2>3. \A q \in Requests \ {r} : Same(q)
    BY <1>1, <2>1 DEF TypeOK, Same
  <2>4. Untouched(r)' /\ CancelledFirst(r)' /\ OneRecorder(r)'
    BY <1>1, <1>2, <2>1
       DEF TypeOK, RequestInv, Untouched, CancelledFirst, OneRecorder, Accounting, Done
  <2>5. OneWrite(r)'
    BY <1>1, <2>1 DEF RequestInv, OneWrite, OgxCopies
  <2>6. QED
    BY <2>2, <2>3, <2>4, <2>5 DEF RequestInv
<1>5. QED
  BY <1>3, <1>4 DEF TypeOK

LEMMA StoreEndsStep ==
  ASSUME TypeOK, NEW r \in Requests, RequestInv(r), StoreEnds(r)
  PROVE  /\ TypeOK' /\ RequestInv(r)' /\ \A q \in Requests \ {r} : Same(q)
<1>1. /\ stage[r] = "storing" /\ stage' = [stage EXCEPT ![r] = "summing"]
      /\ registered' = registered /\ interrupts' = interrupts
      /\ scheduled' = scheduled /\ cancelled' = cancelled
      /\ persisting' = persisting /\ omitted' = omitted /\ leftToOgx' = leftToOgx
      /\ answered' = answered /\ WriteEnds(r, "completion")
      /\ recorded' = recorded /\ charged' = charged /\ topic' = topic
  BY DEF StoreEnds, Goto, callVars, turnVars, bookVars
<1>2. /\ guard' = guard /\ stored' \in [Requests -> Nat]
      /\ outcome' \in [Requests -> Outcomes] /\ writing' \in [Requests -> SUBSET Writers]
      /\ \A q \in Requests \ {r} :
           /\ outcome'[q] = outcome[q] /\ writing'[q] = writing[q]
           /\ stored'[q] = stored[q]
  BY <1>1, WriteEndsEffect
<1>3. TypeOK'
  BY <1>1, <1>2 DEF TypeOK
<1>4. \A q \in Requests \ {r} : Same(q)
  BY <1>1, <1>2 DEF TypeOK, Same
<1>5. Untouched(r)' /\ CancelledFirst(r)' /\ OneRecorder(r)'
  BY <1>1, <1>2
     DEF TypeOK, RequestInv, Untouched, CancelledFirst, OneRecorder, Accounting, Done
<1>6. OneWrite(r)'
  <2>1. OneWrite(r) /\ leftToOgx'[r] = leftToOgx[r] /\ omitted'[r] = omitted[r]
        /\ answered'[r] = answered[r]
    BY <1>1 DEF RequestInv
  <2>2. QED
    BY <1>1, <2>1, WriteEndsEffect, EndedWriteCountsOnce
<1>7. QED
  BY <1>3, <1>4, <1>5, <1>6 DEF RequestInv

LEMMA PersistKeepsInv ==
  ASSUME TypeOK, NEW r \in Requests, RequestInv(r), NEW who \in Writers,
         ~guard[r], Persist(r, who),
         leftToOgx'[r] = leftToOgx[r], omitted'[r] = omitted[r],
         answered'[r] = answered[r]
  PROVE  /\ guard' \in [Requests -> BOOLEAN] /\ stored' = stored
         /\ persisting' \in [Requests -> SUBSET Writers]
         /\ outcome' \in [Requests -> Outcomes]
         /\ writing' \in [Requests -> SUBSET Writers]
         /\ guard'[r] /\ persisting'[r] = {who}
         /\ OneWrite(r)'
         /\ \A q \in Requests \ {r} :
              /\ guard'[q] = guard[q] /\ persisting'[q] = persisting[q]
              /\ outcome'[q] = outcome[q] /\ writing'[q] = writing[q]
<1>1. /\ guard' = [guard EXCEPT ![r] = TRUE] /\ StartWrite(r, who, "interrupted")
      /\ persisting' = [persisting EXCEPT ![r] = @ \cup {who}] /\ stored' = stored
  BY DEF Persist
<1>2. persisting[r] = {}
  BY DEF RequestInv, OneRecorder
<1>3. OneWrite(r)'
  BY <1>1, StartedWriteIsAlone DEF RequestInv
<1>4. /\ outcome' \in [Requests -> Outcomes] /\ writing' \in [Requests -> SUBSET Writers]
      /\ \A q \in Requests \ {r} : outcome'[q] = outcome[q] /\ writing'[q] = writing[q]
  BY <1>1, StartWriteEffect
<1>5. QED
  BY <1>1, <1>2, <1>3, <1>4 DEF TypeOK

LEMMA CallbackStep ==
  ASSUME TypeOK, NEW r \in Requests, RequestInv(r), Callback(r)
  PROVE  /\ TypeOK' /\ RequestInv(r)' /\ \A q \in Requests \ {r} : Same(q)
<1>1. /\ scheduled[r] > 0 /\ scheduled' = [scheduled EXCEPT ![r] = @ - 1]
      /\ stage' = stage /\ registered' = registered /\ interrupts' = interrupts
      /\ cancelled' = cancelled /\ omitted' = omitted /\ leftToOgx' = leftToOgx
      /\ answered' = answered
      /\ recorded' = recorded /\ charged' = charged /\ topic' = topic
  BY DEF Callback, turnVars, bookVars
<1>2. /\ scheduled' \in [Requests -> 0..MaxInterrupts]
      /\ scheduled'[r] = scheduled[r] - 1
      /\ \A q \in Requests \ {r} : scheduled'[q] = scheduled[q]
  BY <1>1, StreamAssumption DEF TypeOK
<1>3. interrupts[r] > 0 /\ stage[r] \notin Accounting
  BY <1>1 DEF RequestInv, CancelledFirst, TypeOK
<1>4. Untouched(r)' /\ CancelledFirst(r)'
  <2>1. stage[r] \notin {"new", "starting", "compacting"}
    BY <1>3 DEF RequestInv, Untouched, TypeOK
  <2>2. QED
    BY <1>1, <1>2, <1>3, <2>1 DEF RequestInv, Untouched, CancelledFirst, Runs, TypeOK
<1>5. CASE guard[r]
  <2>1. /\ persisting' = persisting /\ guard' = guard /\ outcome' = outcome
        /\ writing' = writing /\ stored' = stored
    BY <1>5 DEF Callback, storeVars
  <2>2. TypeOK' /\ \A q \in Requests \ {r} : Same(q)
    BY <1>1, <1>2, <2>1 DEF TypeOK, Same
  <2>3. OneWrite(r)' /\ OneRecorder(r)'
    BY <1>1, <1>5, <2>1 DEF RequestInv, OneWrite, OneRecorder, OgxCopies
  <2>4. QED
    BY <1>4, <2>2, <2>3 DEF RequestInv
<1>6. CASE ~guard[r]
  <2>1. Persist(r, "callback")
    BY <1>6 DEF Callback
  <2>2. /\ guard' \in [Requests -> BOOLEAN] /\ stored' = stored
        /\ persisting' \in [Requests -> SUBSET Writers]
        /\ outcome' \in [Requests -> Outcomes]
        /\ writing' \in [Requests -> SUBSET Writers]
        /\ guard'[r] /\ persisting'[r] = {"callback"}
        /\ OneWrite(r)'
        /\ \A q \in Requests \ {r} :
             /\ guard'[q] = guard[q] /\ persisting'[q] = persisting[q]
             /\ outcome'[q] = outcome[q] /\ writing'[q] = writing[q]
    BY <1>1, <1>6, <2>1, PersistKeepsInv DEF Writers
  <2>3. TypeOK' /\ \A q \in Requests \ {r} : Same(q)
    BY <1>1, <1>2, <2>2 DEF TypeOK, Same
  <2>4. recorded[r] = 0
    BY <1>1, <1>6 DEF RequestInv, OneRecorder, TypeOK
  <2>5. OneRecorder(r)'
    BY <1>1, <1>3, <2>2, <2>4 DEF OneRecorder
  <2>6. QED
    BY <1>4, <2>2, <2>3, <2>5 DEF RequestInv
<1>7. QED
  BY <1>5, <1>6

LEMMA FinishPersistKeepsInv ==
  ASSUME TypeOK, NEW r \in Requests, RequestInv(r), NEW who, FinishPersist(r, who),
         leftToOgx'[r] = leftToOgx[r], omitted'[r] = omitted[r],
         answered'[r] = answered[r]
  PROVE  /\ who \in persisting[r] /\ guard' = guard /\ charged' = charged
         /\ persisting' \in [Requests -> SUBSET Writers] /\ persisting'[r] = {}
         /\ recorded' \in [Requests -> Nat] /\ recorded'[r] <= 1
         /\ topic' \in [Requests -> {"none", "pending", "updated", "failed"}]
         /\ outcome' \in [Requests -> Outcomes]
         /\ writing' \in [Requests -> SUBSET Writers]
         /\ stored' \in [Requests -> Nat]
         /\ OneWrite(r)'
         /\ \A q \in Requests \ {r} :
              /\ persisting'[q] = persisting[q] /\ recorded'[q] = recorded[q]
              /\ topic'[q] = topic[q] /\ outcome'[q] = outcome[q]
              /\ writing'[q] = writing[q] /\ stored'[q] = stored[q]
<1>1. /\ who \in persisting[r] /\ charged' = charged /\ WriteEnds(r, who) /\ Record(r)
      /\ persisting' = [persisting EXCEPT ![r] = @ \ {who}]
      /\ \/ topic' = [topic EXCEPT ![r] = "pending"]
         \/ topic' = topic
  BY DEF FinishPersist
<1>2. /\ persisting' \in [Requests -> SUBSET Writers] /\ persisting'[r] = {}
      /\ \A q \in Requests \ {r} : persisting'[q] = persisting[q]
  BY <1>1 DEF RequestInv, OneRecorder, TypeOK
<1>3. /\ recorded' \in [Requests -> Nat] /\ recorded'[r] <= 1
      /\ \A q \in Requests \ {r} : recorded'[q] = recorded[q]
  BY <1>1 DEF RequestInv, OneRecorder, TypeOK, Record
<1>4. /\ topic' \in [Requests -> {"none", "pending", "updated", "failed"}]
      /\ \A q \in Requests \ {r} : topic'[q] = topic[q]
  BY <1>1 DEF TypeOK
<1>5. OneWrite(r)'
  <2>1. OneWrite(r)
    BY DEF RequestInv
  <2>2. QED
    BY <1>1, <2>1, WriteEndsEffect, EndedWriteCountsOnce
<1>6. QED
  BY <1>1, <1>2, <1>3, <1>4, <1>5, WriteEndsEffect

LEMMA CallbackEndsStep ==
  ASSUME TypeOK, NEW r \in Requests, RequestInv(r), CallbackEnds(r)
  PROVE  /\ TypeOK' /\ RequestInv(r)' /\ \A q \in Requests \ {r} : Same(q)
<1>1. /\ stage' = stage /\ registered' = registered /\ interrupts' = interrupts
      /\ cancelled' = cancelled /\ scheduled' = scheduled
      /\ omitted' = omitted /\ leftToOgx' = leftToOgx
      /\ answered' = answered /\ FinishPersist(r, "callback")
  BY DEF CallbackEnds, callVars, turnVars
<1>2. /\ "callback" \in persisting[r] /\ guard' = guard /\ charged' = charged
      /\ persisting' \in [Requests -> SUBSET Writers] /\ persisting'[r] = {}
      /\ recorded' \in [Requests -> Nat] /\ recorded'[r] <= 1
      /\ topic' \in [Requests -> {"none", "pending", "updated", "failed"}]
      /\ outcome' \in [Requests -> Outcomes]
      /\ writing' \in [Requests -> SUBSET Writers]
      /\ stored' \in [Requests -> Nat]
      /\ OneWrite(r)'
      /\ \A q \in Requests \ {r} :
           /\ persisting'[q] = persisting[q] /\ recorded'[q] = recorded[q]
           /\ topic'[q] = topic[q] /\ outcome'[q] = outcome[q]
           /\ writing'[q] = writing[q] /\ stored'[q] = stored[q]
  BY <1>1, FinishPersistKeepsInv
<1>3. TypeOK' /\ \A q \in Requests \ {r} : Same(q)
  BY <1>1, <1>2 DEF TypeOK, Same
<1>4. guard[r] /\ stage[r] \notin Accounting
      /\ stage[r] \notin {"new", "starting", "compacting"}
  BY <1>2 DEF RequestInv, Untouched, OneRecorder
<1>5. Untouched(r)' /\ CancelledFirst(r)' /\ OneRecorder(r)'
  BY <1>1, <1>2, <1>4 DEF RequestInv, Untouched, CancelledFirst, OneRecorder, Runs
<1>6. QED
  BY <1>2, <1>3, <1>5 DEF RequestInv

LEMMA HandlerEndsStep ==
  ASSUME TypeOK, NEW r \in Requests, RequestInv(r), HandlerEnds(r)
  PROVE  /\ TypeOK' /\ RequestInv(r)' /\ \A q \in Requests \ {r} : Same(q)
<1>1. /\ stage[r] = "persisting" /\ stage' = [stage EXCEPT ![r] = "farewell"]
      /\ registered' = registered /\ interrupts' = interrupts
      /\ cancelled' = cancelled /\ scheduled' = scheduled
      /\ omitted' = omitted /\ leftToOgx' = leftToOgx
      /\ answered' = answered /\ FinishPersist(r, "handler")
  BY DEF HandlerEnds, Goto, callVars, turnVars
<1>2. /\ "handler" \in persisting[r] /\ guard' = guard /\ charged' = charged
      /\ persisting' \in [Requests -> SUBSET Writers] /\ persisting'[r] = {}
      /\ recorded' \in [Requests -> Nat] /\ recorded'[r] <= 1
      /\ topic' \in [Requests -> {"none", "pending", "updated", "failed"}]
      /\ outcome' \in [Requests -> Outcomes]
      /\ writing' \in [Requests -> SUBSET Writers]
      /\ stored' \in [Requests -> Nat]
      /\ OneWrite(r)'
      /\ \A q \in Requests \ {r} :
           /\ persisting'[q] = persisting[q] /\ recorded'[q] = recorded[q]
           /\ topic'[q] = topic[q] /\ outcome'[q] = outcome[q]
           /\ writing'[q] = writing[q] /\ stored'[q] = stored[q]
  BY <1>1, FinishPersistKeepsInv
<1>3. TypeOK' /\ \A q \in Requests \ {r} : Same(q)
  BY <1>1, <1>2 DEF TypeOK, Same, Sending
<1>4. guard[r]
  BY <1>2 DEF RequestInv, OneRecorder
<1>5. Untouched(r)' /\ CancelledFirst(r)' /\ OneRecorder(r)'
  BY <1>1, <1>2, <1>4
     DEF RequestInv, Untouched, CancelledFirst, OneRecorder, Runs, Accounting, Done, TypeOK
<1>6. QED
  BY <1>2, <1>3, <1>5 DEF RequestInv

LEMMA HandleCancelStep ==
  ASSUME TypeOK, NEW r \in Requests, RequestInv(r), HandleCancel(r)
  PROVE  /\ TypeOK' /\ RequestInv(r)' /\ \A q \in Requests \ {r} : Same(q)
<1>1. /\ stage[r] = "streaming" /\ Delivered(r)
      /\ registered' = registered /\ interrupts' = interrupts
      /\ scheduled' = scheduled
      /\ omitted' = omitted /\ leftToOgx' = leftToOgx
      /\ answered' = answered
      /\ recorded' = recorded /\ charged' = charged /\ topic' = topic
  BY DEF HandleCancel, callVars, turnVars, bookVars
<1>2. /\ cancelled' \in [Requests -> {"no", "once", "forever"}]
      /\ \A q \in Requests \ {r} : cancelled'[q] = cancelled[q]
  BY <1>1 DEF Delivered, TypeOK
<1>3. CASE guard[r]
  <2>1. /\ persisting' = persisting /\ guard' = guard /\ outcome' = outcome
        /\ writing' = writing /\ stored' = stored
        /\ stage' = [stage EXCEPT ![r] = "farewell"]
    BY <1>3 DEF HandleCancel, Goto, storeVars
  <2>2. TypeOK' /\ \A q \in Requests \ {r} : Same(q)
    BY <1>1, <1>2, <2>1 DEF TypeOK, Same, Sending
  <2>3. Untouched(r)' /\ CancelledFirst(r)' /\ OneRecorder(r)' /\ OneWrite(r)'
    BY <1>1, <1>3, <2>1 DEF RequestInv, Untouched, CancelledFirst, OneRecorder,
       Accounting, Done, OneWrite, OgxCopies, TypeOK
  <2>4. QED
    BY <2>2, <2>3 DEF RequestInv
<1>4. CASE ~guard[r]
  <2>1. Persist(r, "handler") /\ stage' = [stage EXCEPT ![r] = "persisting"]
    BY <1>4 DEF HandleCancel, Goto
  <2>2. /\ guard' \in [Requests -> BOOLEAN] /\ stored' = stored
        /\ persisting' \in [Requests -> SUBSET Writers]
        /\ outcome' \in [Requests -> Outcomes]
        /\ writing' \in [Requests -> SUBSET Writers]
        /\ guard'[r] /\ persisting'[r] = {"handler"}
        /\ OneWrite(r)'
        /\ \A q \in Requests \ {r} :
             /\ guard'[q] = guard[q] /\ persisting'[q] = persisting[q]
             /\ outcome'[q] = outcome[q] /\ writing'[q] = writing[q]
    BY <1>1, <1>4, <2>1, PersistKeepsInv DEF Writers
  <2>3. TypeOK' /\ \A q \in Requests \ {r} : Same(q)
    <3>1. /\ stage' = [stage EXCEPT ![r] = "persisting"]
          /\ stage' \in [Requests -> Sending \cup Done \cup
                {"new", "compacting", "streaming", "persisting", "storing", "summing"}]
      BY <2>1 DEF TypeOK
    <3>2. TypeOK'
      BY <1>1, <1>2, <2>2, <3>1 DEF TypeOK
    <3>3. \A q \in Requests \ {r} : stage'[q] = stage[q]
      BY <3>1 DEF TypeOK
    <3>4. \A q \in Requests \ {r} : Same(q)
      BY <1>1, <1>2, <2>2, <3>3 DEF Same
    <3>5. QED
      BY <3>2, <3>4
  <2>4. recorded[r] = 0
    BY <1>1, <1>4 DEF RequestInv, OneRecorder, TypeOK
  <2>5. Untouched(r)' /\ CancelledFirst(r)' /\ OneRecorder(r)'
    BY <1>1, <2>1, <2>2, <2>4 DEF RequestInv, Untouched, CancelledFirst,
       OneRecorder, Accounting, Done, TypeOK
  <2>6. QED
    BY <2>2, <2>3, <2>5 DEF RequestInv
<1>5. QED
  BY <1>3, <1>4

LEMMA KilledStep ==
  ASSUME TypeOK, NEW r \in Requests, RequestInv(r), Killed(r)
  PROVE  /\ TypeOK' /\ RequestInv(r)' /\ \A q \in Requests \ {r} : Same(q)
<1>1. /\ stage[r] \in {"compacting", "persisting", "storing", "summing"}
      /\ Delivered(r) /\ stage' = [stage EXCEPT ![r] = "ended"]
      /\ registered' = [registered EXCEPT ![r] = FALSE]
      /\ persisting' = [persisting EXCEPT ![r] = @ \ {"handler"}]
      /\ interrupts' = interrupts /\ scheduled' = scheduled
      /\ omitted' = omitted /\ leftToOgx' = leftToOgx
      /\ answered' = answered
      /\ recorded' = recorded /\ charged' = charged /\ topic' = topic
  BY DEF Killed, Goto, Deregister, turnVars, bookVars
<1>2. /\ cancelled' \in [Requests -> {"no", "once", "forever"}]
      /\ \A q \in Requests \ {r} : cancelled'[q] = cancelled[q]
  BY <1>1 DEF Delivered, TypeOK
<1>3. /\ guard' = guard /\ stored' \in [Requests -> Nat]
      /\ outcome' \in [Requests -> Outcomes] /\ writing' \in [Requests -> SUBSET Writers]
      /\ \A q \in Requests \ {r} :
           /\ outcome'[q] = outcome[q] /\ writing'[q] = writing[q]
           /\ stored'[q] = stored[q]
      /\ OneWrite(r)'
  <2>1. OneWrite(r) /\ leftToOgx'[r] = leftToOgx[r] /\ omitted'[r] = omitted[r]
        /\ answered'[r] = answered[r]
    BY <1>1 DEF RequestInv
  <2>2. CASE \E who \in writing[r] : WriteFails(r, who)
    <3>1. PICK who \in writing[r] : WriteFails(r, who)
      BY <2>2
    <3>2. QED
      BY <2>1, <3>1, WriteFailsEffect, EndedWriteCountsOnce
  <2>3. CASE UNCHANGED storeVars
    <3>1. /\ guard' = guard /\ stored' = stored /\ outcome' = outcome
          /\ writing' = writing
      BY <2>3 DEF storeVars
    <3>2. QED
      BY <2>1, <3>1, EndedWriteCountsOnce DEF TypeOK
  <2>4. QED
    BY <2>2, <2>3 DEF Killed
<1>4. /\ persisting' \in [Requests -> SUBSET Writers]
      /\ persisting'[r] \subseteq persisting[r]
      /\ \A q \in Requests \ {r} : persisting'[q] = persisting[q]
  BY <1>1 DEF TypeOK
<1>5. TypeOK' /\ \A q \in Requests \ {r} : Same(q)
  BY <1>1, <1>2, <1>3, <1>4 DEF TypeOK, Same, Done
<1>6. Untouched(r)' /\ CancelledFirst(r)'
  BY <1>1 DEF RequestInv, Untouched, CancelledFirst, Accounting, Done, TypeOK
<1>7. OneRecorder(r)'
  BY <1>1, <1>3, <1>4 DEF RequestInv, OneRecorder, Accounting, Done, TypeOK
<1>8. QED
  BY <1>3, <1>5, <1>6, <1>7 DEF RequestInv

-----------------------------------------------------------------------------
LEMMA InitInv == Init => StreamInv
<1> SUFFICES ASSUME Init PROVE StreamInv
  OBVIOUS
<1>1. TypeOK
  BY StreamAssumption DEF Init, TypeOK, Outcomes
<1>2. ASSUME NEW r \in Requests
      PROVE  Untouched(r) /\ CancelledFirst(r) /\ OneWrite(r) /\ OneRecorder(r)
  <2>1. Untouched(r) /\ CancelledFirst(r)
    BY DEF Init, Untouched, CancelledFirst, Accounting, Runs
  <2>2. OneWrite(r)
    <3>1. /\ leftToOgx[r] = TRUE /\ omitted[r] = FALSE /\ answered[r] = FALSE
          /\ writing[r] = {} /\ outcome[r] = "pending"
      BY DEF Init
    <3>2. stored[r] = OgxCopies(r) /\ stored[r] <= OgxCopies(r) + 1
      BY <3>1 DEF Init, OgxCopies
    <3>3. QED
      BY <3>1, <3>2 DEF OneWrite
  <2>3. OneRecorder(r)
    BY DEF Init, OneRecorder
  <2>4. QED
    BY <2>1, <2>2, <2>3
<1>3. QED
  BY <1>1, <1>2 DEF StreamInv

LEMMA StreamInvHolds == Spec => []StreamInv
<1>1. StreamInv /\ [Next]_vars => StreamInv'
  <2>1. SUFFICES ASSUME StreamInv, [Next]_vars PROVE StreamInv'
    OBVIOUS
  <2>2. TypeOK /\ \A r \in Requests : RequestInv(r)
    BY <2>1 DEF StreamInv, RequestInv
  <2>3. CASE UNCHANGED vars
    <3>1. /\ stage' = stage /\ registered' = registered /\ interrupts' = interrupts
          /\ cancelled' = cancelled /\ scheduled' = scheduled
          /\ persisting' = persisting /\ guard' = guard /\ omitted' = omitted
          /\ leftToOgx' = leftToOgx /\ outcome' = outcome /\ writing' = writing
          /\ stored' = stored /\ answered' = answered /\ recorded' = recorded
          /\ charged' = charged /\ topic' = topic
      BY <2>3 DEF vars, callVars, turnVars, storeVars, bookVars
    <3>2. TypeOK'
      BY <2>2, <3>1 DEF TypeOK
    <3>3. \A r \in Requests : RequestInv(r)'
      BY <2>2, <3>1, Frame DEF Same
    <3>4. QED
      BY <3>2, <3>3 DEF StreamInv, RequestInv
  <2>4. CASE Next
    <3>1. PICK r \in Requests :
            Start(r) \/ TaskStep(r) \/ BackgroundStep(r)
              \/ OgxAnswers(r) \/ Interrupt(r) \/ Disconnect(r)
      BY <2>4 DEF Next
    <3>2. TypeOK' /\ RequestInv(r)' /\ \A q \in Requests \ {r} : Same(q)
      <4>1. CASE TaskStep(r)
        BY <2>2, <4>1, StartSentStep, CompactStep, CompactionFailsStep, ForwardStep,
           AnswerEndsStep, ModelFailsStep, StoreEndsStep, LastSentStep,
           TopicFailsStep, ChargeStep, EndSentStep, HandleCancelStep,
           HandlerEndsStep, DieSendingStep, KilledStep, CloseStep
           DEF TaskStep, Answering
      <4>2. CASE BackgroundStep(r)
        BY <2>2, <4>2, CallbackStep, CallbackEndsStep, TopicEndsStep DEF BackgroundStep
      <4>3. CASE Start(r) \/ OgxAnswers(r) \/ Interrupt(r) \/ Disconnect(r)
        BY <2>2, <4>3, StartStep, OgxAnswersStep, InterruptStep, DisconnectStep
      <4>4. QED
        BY <3>1, <4>1, <4>2, <4>3
    <3>3. \A q \in Requests \ {r} : RequestInv(q)'
      BY <2>2, <3>2, Frame
    <3>4. QED
      BY <3>2, <3>3 DEF StreamInv, RequestInv
  <2>5. QED
    BY <2>1, <2>3, <2>4
<1>2. QED
  BY InitInv, <1>1, PTL DEF Spec

(* Every variable of the stream keeps its type.                            *)
THEOREM StreamTypeCorrect == Spec => []TypeOK
<1>1. StreamInv => TypeOK
  BY DEF StreamInv
<1>2. QED
  BY <1>1, StreamInvHolds, PTL

(* PendingTurn and the guard: a turn that is ours, or that nobody          *)
(* interrupted, is stored at most once, whatever fails or is cancelled.    *)
THEOREM TurnsStoredOnce == Spec => []StoredOnce
<1>1. StreamInv => StoredOnce
  <2>1. SUFFICES ASSUME StreamInv, NEW r \in Requests, omitted[r] \/ ~Interrupted(r)
                 PROVE  stored[r] <= 1
    BY DEF StoredOnce
  <2>2. OneWrite(r) /\ stored[r] \in Nat /\ outcome[r] \in Outcomes
    BY <2>1 DEF StreamInv, TypeOK
  <2>3. CASE omitted[r]
    BY <2>2, <2>3 DEF OneWrite, OgxCopies
  <2>4. CASE ~omitted[r]
    <3>1. outcome[r] = "pending"
      BY <2>1, <2>2, <2>4 DEF OneWrite, Interrupted, Outcomes
    <3>2. QED
      BY <2>2, <3>1 DEF OneWrite, OgxCopies
  <2>5. QED
    BY <2>3, <2>4
<1>2. QED
  BY <1>1, StreamInvHolds, PTL

(* The stream, its handler and the callbacks record a turn at most once.   *)
THEOREM TurnsRecordedOnce == Spec => []RecordedOnce
<1>1. StreamInv => RecordedOnce
  BY DEF StreamInv, OneRecorder, RecordedOnce
<1>2. QED
  BY <1>1, StreamInvHolds, PTL

(* Nobody pays for an answer whose interrupt was acknowledged.             *)
THEOREM InterruptsAreFree == Spec => []InterruptedNotCharged
<1>1. StreamInv => InterruptedNotCharged
  BY DEF StreamInv, TypeOK, CancelledFirst, InterruptedNotCharged
<1>2. QED
  BY <1>1, StreamInvHolds, PTL
-----------------------------------------------------------------------------
(* What is charged or listed is stored: the turn is on record as soon as   *)
(* somebody may charge it or list it, and whoever persists it waits for a  *)
(* write of its own.                                                       *)

Kept(r) ==
  stored[r] > 0 \/ outcome[r] \in {"failed: completed", "failed: interrupted"}

KeptInv(r) ==
  /\ ~guard[r] => outcome[r] = "pending"
  /\ stage[r] \in {"streaming", "sending"} /\ guard[r] => interrupts[r] > 0
  /\ answered[r] => stored[r] > 0
  /\ writing[r] # {} => outcome[r] \in {"completed", "interrupted"}
  /\ persisting[r] \subseteq writing[r] \cap {"handler", "callback"}
  /\ stage[r] = "storing" => "completion" \in writing[r]
  /\ stage[r] \in {"summing", "ending"} \/ charged[r] \/ recorded[r] > 0 => Kept(r)

LEMMA KeptFrame ==
  ASSUME NEW q, KeptInv(q), Same(q)
  PROVE  KeptInv(q)'
BY DEF KeptInv, Kept, Same

(* A write that ends, or fails, leaves a turn that is stored or failed.    *)
LEMMA FailedWriteIsKept ==
  ASSUME TypeOK, NEW r \in Requests, NEW who \in writing[r], WriteFails(r, who),
         OneWrite(r), KeptInv(r)
  PROVE  /\ guard'[r] = guard[r] /\ writing'[r] = {} /\ outcome'[r] # "pending"
         /\ Kept(r)' /\ stored'[r] >= stored[r] /\ stored[r] \in Nat
<1>1. /\ guard' = guard /\ outcome'[r] = Failed(outcome[r])
      /\ writing'[r] = writing[r] \ {who}
      /\ stored'[r] = stored[r] \/ stored'[r] = stored[r] + 1
  BY WriteFailsEffect
<1>2. outcome[r] \in {"completed", "interrupted"}
  BY DEF KeptInv
<1>3. outcome'[r] \in {"failed: completed", "failed: interrupted"}
  BY <1>1, <1>2 DEF Failed
<1>4. stored[r] \in Nat
  BY DEF TypeOK
<1>5. writing'[r] = {}
  BY <1>1 DEF OneWrite
<1>6. Kept(r)' /\ outcome'[r] # "pending"
  BY <1>3 DEF Kept
<1>7. stored'[r] >= stored[r]
  BY <1>1, <1>4
<1>8. QED
  BY <1>1, <1>4, <1>5, <1>6, <1>7

LEMMA EndedWriteIsKept ==
  ASSUME TypeOK, NEW r \in Requests, NEW who \in writing[r], WriteEnds(r, who),
         OneWrite(r), KeptInv(r)
  PROVE  /\ guard'[r] = guard[r] /\ writing'[r] = {} /\ outcome'[r] # "pending"
         /\ Kept(r)' /\ stored'[r] >= stored[r] /\ stored[r] \in Nat
<1>1. CASE WriteFails(r, who)
  BY <1>1, FailedWriteIsKept
<1>2. CASE /\ stored' = [stored EXCEPT ![r] = @ + 1]
           /\ writing' = [writing EXCEPT ![r] = @ \ {who}]
           /\ UNCHANGED <<guard, outcome>>
  <2>1. stored[r] \in Nat /\ stored'[r] = stored[r] + 1
    BY <1>2 DEF TypeOK
  <2>2. writing'[r] = {}
    BY <1>2 DEF OneWrite, TypeOK
  <2>3. outcome[r] \in {"completed", "interrupted"}
    BY DEF KeptInv
  <2>4. stored'[r] > 0 /\ stored'[r] >= stored[r]
    BY <2>1
  <2>5. Kept(r)'
    BY <2>4 DEF Kept
  <2>6. QED
    BY <1>2, <2>1, <2>2, <2>3, <2>4, <2>5
<1>3. QED
  BY <1>1, <1>2 DEF WriteEnds

(* Actions that neither write nor account.                                 *)
LEMMA QuietStepKeeps ==
  ASSUME TypeOK, NEW r \in Requests, RequestInv(r), KeptInv(r),
         UNCHANGED <<persisting, answered, storeVars, recorded, charged>>,
         interrupts'[r] >= interrupts[r], interrupts'[r] \in Nat,
         \/ stage'[r] \notin {"streaming", "sending", "storing", "summing", "ending"}
         \/ stage'[r] = stage[r]
         \/ stage'[r] \in {"streaming", "sending"}
              /\ stage[r] \in {"streaming", "sending"}
         \/ stage'[r] = "streaming" /\ ~guard[r]
  PROVE  KeptInv(r)'
<1>1. interrupts[r] \in Nat
  BY StreamAssumption DEF TypeOK
<1>2. /\ guard' = guard /\ outcome' = outcome /\ writing' = writing
      /\ stored' = stored /\ persisting' = persisting /\ answered' = answered
      /\ recorded' = recorded /\ charged' = charged
  BY DEF storeVars
<1>3. Kept(r)' <=> Kept(r)
  BY <1>2 DEF Kept
<1>4. stage'[r] \in {"streaming", "sending"} /\ guard'[r] => interrupts'[r] > 0
  <2>1. SUFFICES ASSUME stage'[r] \in {"streaming", "sending"}, guard[r]
                 PROVE  interrupts'[r] > 0
    BY <1>2
  <2>2. stage[r] \in {"streaming", "sending"}
    BY <2>1
  <2>3. interrupts[r] > 0
    BY <2>1, <2>2 DEF KeptInv
  <2>4. QED
    BY <1>1, <2>3
<1>5. stage'[r] = "storing" => stage[r] = "storing"
  OBVIOUS
<1>6. stage'[r] \in {"summing", "ending"} => stage[r] \in {"summing", "ending"}
  OBVIOUS
<1>7. QED
  BY <1>2, <1>3, <1>4, <1>5, <1>6 DEF KeptInv

LEMMA QuietStepsKeep ==
  ASSUME TypeOK, TypeOK', NEW r \in Requests, RequestInv(r), KeptInv(r),
         \/ Start(r) \/ StartSent(r) \/ Compact(r) \/ CompactionFails(r)
         \/ Forward(r) \/ ModelFails(r) \/ LastSent(r) \/ TopicFails(r)
         \/ Interrupt(r) \/ TopicEnds(r) \/ Disconnect(r) \/ DieSending(r) \/ Close(r)
  PROVE  KeptInv(r)'
<1>1. UNCHANGED <<persisting, answered, storeVars, recorded, charged>>
  BY DEF Start, StartSent, Compact, CompactionFails, Forward, ModelFails, LastSent,
         TopicFails, Interrupt, TopicEnds, Disconnect, DieSending, Close, bookVars
<1>2. interrupts'[r] >= interrupts[r] /\ interrupts'[r] \in Nat
  <2>1. interrupts[r] \in Nat /\ interrupts'[r] \in Nat
    BY StreamAssumption DEF TypeOK
  <2>2. interrupts'[r] = interrupts[r] \/ interrupts'[r] = interrupts[r] + 1
    BY DEF TypeOK, Start, StartSent, Compact, CompactionFails, Forward, ModelFails,
           LastSent, TopicFails, Interrupt, TopicEnds, Disconnect, DieSending, Close,
           callVars
  <2>3. QED
    BY <2>1, <2>2
<1>3. \/ stage'[r] \notin {"streaming", "sending", "storing", "summing", "ending"}
      \/ stage'[r] = stage[r]
      \/ stage'[r] \in {"streaming", "sending"} /\ stage[r] \in {"streaming", "sending"}
      \/ stage'[r] = "streaming" /\ stage[r] \in {"starting", "compacting"}
  <2>1. CASE Interrupt(r) \/ TopicEnds(r) \/ Disconnect(r)
    BY <2>1 DEF Interrupt, TopicEnds, Disconnect
  <2>2. CASE Start(r)
    BY <2>2 DEF TypeOK, Start, Goto
  <2>3. CASE CompactionFails(r) \/ ModelFails(r) \/ LastSent(r) \/ TopicFails(r)
    BY <2>3 DEF TypeOK, CompactionFails, ModelFails, LastSent, TopicFails, Goto
  <2>4. CASE DieSending(r) \/ Close(r)
    BY <2>4 DEF TypeOK, DieSending, Close, Goto
  <2>5. CASE StartSent(r)
    BY <2>5 DEF TypeOK, StartSent, Goto
  <2>6. CASE Compact(r)
    BY <2>6 DEF TypeOK, Compact, Goto
  <2>7. CASE Forward(r)
    BY <2>7 DEF TypeOK, Forward, Goto
  <2>8. QED
    BY <2>1, <2>2, <2>3, <2>4, <2>5, <2>6, <2>7
<1>4. stage[r] \in {"starting", "compacting"} => ~guard[r]
  BY DEF RequestInv, Untouched
<1>5. QED
  BY <1>1, <1>2, <1>3, <1>4, QuietStepKeeps

(* OGX stores the turn, and the stream gets to its end.                    *)
LEMMA AnswerKeeps ==
  ASSUME TypeOK, NEW r \in Requests, RequestInv(r), KeptInv(r),
         OgxAnswers(r) \/ AnswerEnds(r)
  PROVE  KeptInv(r)'
<1>1. CASE OgxAnswers(r)
  <2>1. stored[r] \in Nat /\ stored'[r] = stored[r] + 1
    BY <1>1 DEF OgxAnswers, TypeOK
  <2>2. /\ guard' = guard /\ outcome' = outcome /\ writing' = writing
        /\ persisting' = persisting /\ stage' = stage /\ interrupts' = interrupts
        /\ recorded' = recorded /\ charged' = charged
    BY <1>1 DEF OgxAnswers, callVars, bookVars
  <2>3. stored'[r] > 0
    BY <2>1
  <2>4. Kept(r)'
    BY <2>3 DEF Kept
  <2>5. QED
    BY <2>2, <2>3, <2>4 DEF KeptInv
<1>2. CASE AnswerEnds(r)
  <2>1. /\ stage[r] = "streaming" /\ cancelled[r] = "no"
        /\ omitted[r] \/ answered[r]
        /\ persisting' = persisting /\ answered' = answered /\ stored' = stored
        /\ recorded' = recorded /\ charged' = charged /\ interrupts' = interrupts
    BY <1>2 DEF AnswerEnds, Runs, bookVars
  <2>2. interrupts[r] = 0 /\ ~guard[r] /\ outcome[r] = "pending" /\ recorded[r] = 0
        /\ ~charged[r] /\ persisting[r] = {}
    BY <2>1 DEF RequestInv, CancelledFirst, OneRecorder, KeptInv, Runs, TypeOK, Done
  <2>3. CASE ~leftToOgx[r]
    <3>1. /\ guard'[r] = TRUE /\ stage'[r] = "storing"
          /\ StartWrite(r, "completion", "completed")
      BY <1>2, <2>2, <2>3 DEF AnswerEnds, Goto, TypeOK
    <3>2. outcome'[r] = "completed" /\ writing'[r] = writing[r] \cup {"completion"}
      BY <2>2, <3>1, StartWriteEffect DEF Writers
    <3>3. QED
      BY <2>1, <2>2, <3>1, <3>2 DEF KeptInv
  <2>4. CASE leftToOgx[r]
    <3>1. answered[r]
      BY <2>1, <2>4 DEF RequestInv, OneWrite, TypeOK
    <3>2. /\ guard' = guard /\ outcome' = outcome /\ writing' = writing
          /\ stage'[r] = "summing"
      BY <1>2, <2>4 DEF AnswerEnds, Goto, TypeOK
    <3>3. QED
      BY <2>1, <2>2, <3>1, <3>2 DEF KeptInv, Kept
  <2>5. QED
    BY <2>3, <2>4 DEF TypeOK
<1>3. QED
  BY <1>1, <1>2

(* The accounting of a stream that ran to its end.                         *)
LEMMA AccountingKeeps ==
  ASSUME TypeOK, NEW r \in Requests, RequestInv(r), KeptInv(r),
         StoreEnds(r) \/ Charge(r) \/ EndSent(r)
  PROVE  KeptInv(r)'
<1>1. CASE StoreEnds(r)
  <2>1. /\ stage[r] = "storing" /\ stage'[r] = "summing"
        /\ WriteEnds(r, "completion") /\ "completion" \in writing[r]
        /\ persisting' = persisting /\ answered' = answered
        /\ interrupts' = interrupts
    BY <1>1 DEF StoreEnds, Goto, TypeOK, KeptInv, callVars
  <2>2. persisting[r] = {}
    BY <2>1 DEF RequestInv, OneRecorder, Accounting
  <2>3. /\ guard'[r] = guard[r] /\ writing'[r] = {} /\ outcome'[r] # "pending"
        /\ Kept(r)' /\ stored'[r] >= stored[r] /\ stored[r] \in Nat
        /\ stored'[r] \in Nat
    BY <2>1, EndedWriteIsKept, WriteEndsEffect DEF RequestInv
  <2>4. guard[r]
    BY <2>1 DEF KeptInv
  <2>5. answered[r] => stored'[r] > 0
    BY <2>3 DEF KeptInv
  <2>6. QED
    BY <2>1, <2>2, <2>3, <2>4, <2>5 DEF KeptInv
<1>2. CASE Charge(r) \/ EndSent(r)
  <2>1. /\ stage[r] \in {"summing", "ending"} /\ stage'[r] \in {"ending", "ended"}
        /\ persisting' = persisting /\ answered' = answered
        /\ guard' = guard /\ outcome' = outcome /\ writing' = writing
        /\ stored' = stored /\ interrupts' = interrupts
    BY <1>2 DEF Charge, EndSent, Goto, TypeOK, storeVars, callVars
  <2>2. Kept(r) /\ Kept(r)'
    BY <2>1 DEF KeptInv, Kept
  <2>3. QED
    BY <2>1, <2>2 DEF KeptInv
<1>3. QED
  BY <1>1, <1>2

(* Whoever persists an interrupted turn finds it pending, and writes it.   *)
LEMMA PersistKeeps ==
  ASSUME TypeOK, NEW r \in Requests, RequestInv(r), KeptInv(r), NEW who \in {"handler", "callback"},
         ~guard[r], Persist(r, who), interrupts' = interrupts,
         answered' = answered, recorded' = recorded, charged' = charged,
         stage[r] \notin Accounting,
         \/ stage'[r] = stage[r] /\ interrupts[r] > 0
         \/ stage'[r] = "persisting"
  PROVE  KeptInv(r)'
<1>1. /\ guard'[r] = TRUE /\ StartWrite(r, who, "interrupted") /\ stored' = stored
      /\ persisting'[r] = persisting[r] \cup {who}
  BY DEF Persist, TypeOK
<1>2. outcome[r] = "pending"
  BY DEF KeptInv
<1>3. outcome'[r] = "interrupted" /\ writing'[r] = writing[r] \cup {who}
  BY <1>1, <1>2, StartWriteEffect DEF Writers
<1>4. stage'[r] \notin {"storing", "summing", "ending"}
  BY DEF Accounting
<1>5. charged[r] \/ recorded[r] > 0 => stored[r] > 0
  BY <1>2 DEF KeptInv, Kept
<1>6. QED
  BY <1>1, <1>3, <1>4, <1>5 DEF KeptInv, Kept

LEMMA FinishPersistKeeps ==
  ASSUME TypeOK, NEW r \in Requests, RequestInv(r), KeptInv(r), NEW who \in Writers,
         FinishPersist(r, who), interrupts' = interrupts, answered' = answered,
         stage'[r] = stage[r] \/ stage'[r] = "farewell"
  PROVE  KeptInv(r)'
<1>1. /\ who \in persisting[r] /\ WriteEnds(r, who)
      /\ persisting'[r] = persisting[r] \ {who}
  BY DEF FinishPersist, TypeOK
<1>2. who \in writing[r] /\ guard[r] /\ persisting'[r] = {}
      /\ stage[r] \notin Accounting
  BY <1>1 DEF KeptInv, RequestInv, OneRecorder
<1>3. /\ guard'[r] = guard[r] /\ writing'[r] = {} /\ outcome'[r] # "pending"
      /\ Kept(r)' /\ stored'[r] >= stored[r] /\ stored[r] \in Nat
      /\ stored'[r] \in Nat
  BY <1>1, <1>2, EndedWriteIsKept, WriteEndsEffect DEF RequestInv
<1>4. answered[r] => stored'[r] > 0
  BY <1>3 DEF KeptInv
<1>5. stage'[r] # "storing"
  BY <1>2 DEF Accounting
<1>6. QED
  BY <1>2, <1>3, <1>4, <1>5 DEF KeptInv

LEMMA InterruptionKeeps ==
  ASSUME TypeOK, NEW r \in Requests, RequestInv(r), KeptInv(r),
         Callback(r) \/ CallbackEnds(r) \/ HandleCancel(r) \/ HandlerEnds(r)
  PROVE  KeptInv(r)'
<1>1. CASE Callback(r)
  <2>1. /\ stage' = stage /\ interrupts' = interrupts /\ answered' = answered
        /\ recorded' = recorded /\ charged' = charged /\ scheduled[r] > 0
    BY <1>1 DEF Callback, bookVars
  <2>2. interrupts[r] > 0 /\ stage[r] \notin Accounting
    BY <2>1 DEF RequestInv, CancelledFirst, TypeOK
  <2>3. CASE guard[r]
    BY <1>1, <2>1, <2>3 DEF Callback, storeVars, KeptInv, Kept
  <2>4. CASE ~guard[r]
    <3>1. Persist(r, "callback")
      BY <1>1, <2>4 DEF Callback
    <3>2. QED
      BY <2>1, <2>2, <2>4, <3>1, PersistKeeps
  <2>5. QED
    BY <2>3, <2>4
<1>2. CASE HandleCancel(r)
  <2>1. /\ stage[r] = "streaming" /\ interrupts' = interrupts /\ answered' = answered
        /\ recorded' = recorded /\ charged' = charged
    BY <1>2 DEF HandleCancel, callVars, bookVars
  <2>2. CASE guard[r]
    <3>1. /\ stage'[r] = "farewell" /\ UNCHANGED <<persisting, storeVars>>
      BY <1>2, <2>2 DEF HandleCancel, Goto, TypeOK
    <3>2. QED
      BY <2>1, <3>1 DEF storeVars, KeptInv, Kept
  <2>3. CASE ~guard[r]
    <3>1. stage'[r] = "persisting" /\ Persist(r, "handler")
      BY <1>2, <2>3 DEF HandleCancel, Goto, TypeOK
    <3>2. stage[r] \notin Accounting
      BY <2>1 DEF Accounting
    <3>3. QED
      BY <2>1, <2>3, <3>1, <3>2, PersistKeeps
  <2>4. QED
    BY <2>2, <2>3
<1>3. CASE CallbackEnds(r)
  BY <1>3, FinishPersistKeeps DEF CallbackEnds, callVars, Writers
<1>4. CASE HandlerEnds(r)
  <2>1. /\ FinishPersist(r, "handler") /\ interrupts' = interrupts
        /\ answered' = answered /\ stage'[r] = "farewell"
    BY <1>4 DEF HandlerEnds, Goto, TypeOK, callVars
  <2>2. QED
    BY <2>1, FinishPersistKeeps DEF Writers
<1>5. QED
  BY <1>1, <1>2, <1>3, <1>4

(* A task that is killed takes its own write with it.                      *)
LEMMA KilledKeeps ==
  ASSUME TypeOK, NEW r \in Requests, RequestInv(r), KeptInv(r), Killed(r)
  PROVE  KeptInv(r)'
<1>1. /\ stage'[r] = "ended" /\ persisting'[r] = persisting[r] \ {"handler"}
      /\ interrupts' = interrupts /\ answered' = answered
      /\ recorded' = recorded /\ charged' = charged
  BY DEF Killed, Goto, TypeOK, bookVars
<1>2. CASE \E who \in writing[r] \ {"callback"} : WriteFails(r, who)
  <2>1. PICK who \in writing[r] : WriteFails(r, who) /\ who # "callback"
    BY <1>2
  <2>2. /\ guard'[r] = guard[r] /\ writing'[r] = {} /\ outcome'[r] # "pending"
        /\ Kept(r)' /\ stored'[r] >= stored[r] /\ stored[r] \in Nat
        /\ stored'[r] \in Nat
    BY <2>1, FailedWriteIsKept, WriteFailsEffect DEF RequestInv
  <2>3. outcome[r] # "pending" /\ guard[r]
    BY <2>1 DEF KeptInv
  <2>4. persisting'[r] = {}
    <3>1. writing[r] = {who}
      BY <2>1 DEF RequestInv, OneWrite
    <3>2. persisting[r] \subseteq {who} /\ persisting[r] \subseteq Writers
      BY <3>1 DEF KeptInv, TypeOK
    <3>3. who = "handler" \/ who = "completion"
      BY <2>1 DEF TypeOK, Writers
    <3>4. CASE who = "handler"
      BY <1>1, <3>2, <3>4
    <3>5. CASE who = "completion"
      BY <1>1, <3>2, <3>5 DEF KeptInv
    <3>6. QED
      BY <3>3, <3>4, <3>5
  <2>5. answered[r] => stored'[r] > 0
    BY <2>2 DEF KeptInv
  <2>6. QED
    BY <1>1, <2>2, <2>3, <2>4, <2>5 DEF KeptInv
<1>3. CASE writing[r] \subseteq {"callback"} /\ UNCHANGED storeVars
  <2>1. /\ guard' = guard /\ outcome' = outcome /\ writing' = writing
        /\ stored' = stored
    BY <1>3 DEF storeVars
  <2>2. QED
    BY <1>1, <2>1 DEF KeptInv, Kept
<1>4. QED
  BY <1>2, <1>3 DEF Killed

LEMMA StepIsLocal ==
  ASSUME TypeOK, NEW r \in Requests, RequestInv(r),
         Start(r) \/ TaskStep(r) \/ BackgroundStep(r)
           \/ OgxAnswers(r) \/ Interrupt(r) \/ Disconnect(r)
  PROVE  \A q \in Requests \ {r} : Same(q)
<1>1. CASE TaskStep(r)
  BY <1>1, StartSentStep, CompactStep, CompactionFailsStep,
     ForwardStep, AnswerEndsStep, ModelFailsStep, StoreEndsStep, LastSentStep,
     TopicFailsStep, ChargeStep, EndSentStep, HandleCancelStep,
     HandlerEndsStep, DieSendingStep, KilledStep, CloseStep
     DEF TaskStep, Answering
<1>2. CASE BackgroundStep(r)
  BY <1>2, CallbackStep, CallbackEndsStep, TopicEndsStep DEF BackgroundStep
<1>3. CASE Start(r) \/ OgxAnswers(r) \/ Interrupt(r) \/ Disconnect(r)
  BY <1>3, StartStep, OgxAnswersStep, InterruptStep, DisconnectStep
<1>4. QED
  BY <1>1, <1>2, <1>3

LEMMA KeptInvHolds == Spec => [](\A r \in Requests : KeptInv(r))
<1>1. Init => \A r \in Requests : KeptInv(r)
  BY DEF Init, KeptInv
<1>2. StreamInv /\ StreamInv' /\ (\A r \in Requests : KeptInv(r)) /\ [Next]_vars
        => (\A r \in Requests : KeptInv(r))'
  <2>1. SUFFICES ASSUME StreamInv, StreamInv', \A r \in Requests : KeptInv(r),
                        [Next]_vars
                 PROVE  \A r \in Requests : KeptInv(r)'
    OBVIOUS
  <2>2. TypeOK /\ TypeOK' /\ \A r \in Requests : RequestInv(r)
    BY <2>1 DEF StreamInv, RequestInv
  <2>3. CASE UNCHANGED vars
    BY <2>1, <2>3 DEF vars, callVars, storeVars, bookVars, KeptInv, Kept
  <2>4. CASE Next
    <3>1. PICK r \in Requests :
            Start(r) \/ TaskStep(r) \/ BackgroundStep(r)
              \/ OgxAnswers(r) \/ Interrupt(r) \/ Disconnect(r)
      BY <2>4 DEF Next
    <3>2. KeptInv(r)'
      <4>1. CASE \/ Start(r) \/ StartSent(r) \/ Compact(r) \/ CompactionFails(r)
                 \/ Forward(r) \/ ModelFails(r) \/ LastSent(r) \/ TopicFails(r)
                 \/ Interrupt(r) \/ TopicEnds(r) \/ Disconnect(r) \/ DieSending(r)
                 \/ Close(r)
        BY <2>1, <2>2, <4>1, QuietStepsKeep
      <4>2. CASE OgxAnswers(r) \/ AnswerEnds(r)
        BY <2>1, <2>2, <4>2, AnswerKeeps
      <4>3. CASE StoreEnds(r) \/ Charge(r) \/ EndSent(r)
        BY <2>1, <2>2, <4>3, AccountingKeeps
      <4>4. CASE Callback(r) \/ CallbackEnds(r) \/ HandleCancel(r) \/ HandlerEnds(r)
        BY <2>1, <2>2, <4>4, InterruptionKeeps
      <4>5. CASE Killed(r)
        BY <2>1, <2>2, <4>5, KilledKeeps
      <4>6. QED
        BY <3>1, <4>1, <4>2, <4>3, <4>4, <4>5 DEF TaskStep, Answering, BackgroundStep
    <3>3. \A q \in Requests \ {r} : Same(q)
      BY <2>1, <2>2, <3>1, StepIsLocal
    <3>4. \A q \in Requests \ {r} : KeptInv(q)'
      BY <2>1, <3>3, KeptFrame
    <3>5. QED
      BY <3>2, <3>4
  <2>5. QED
    BY <2>1, <2>3, <2>4
<1>3. QED
  BY <1>1, <1>2, StreamInvHolds, PTL DEF Spec

(* A turn that is charged or listed is in the conversation, unless its     *)
(* write failed, however stream, handler and callbacks interleave.         *)
THEOREM TurnsAreKept == Spec => []AccountedTurnsKept
<1>1. (\A r \in Requests : KeptInv(r)) => AccountedTurnsKept
  BY DEF KeptInv, Kept, AccountedTurnsKept
<1>2. QED
  BY <1>1, KeptInvHolds, PTL
-----------------------------------------------------------------------------
(* StreamTurn implements TurnAccount.                                      *)

LEMMA FateIs ==
  ASSUME NEW r \in Requests
  PROVE  TypeOK => /\ Fate(r) \in {"open", "kept", "lost"}
                   /\ Fate(r) = "kept" <=> stored[r] > 0
                   /\ Fate(r) # "open" <=> Kept(r)
<1> SUFFICES ASSUME TypeOK
             PROVE  /\ Fate(r) \in {"open", "kept", "lost"}
                    /\ Fate(r) = "kept" <=> stored[r] > 0
                    /\ Fate(r) # "open" <=> Kept(r)
  OBVIOUS
<1>1. stored[r] \in Nat
  BY DEF TypeOK
<1>2. stored[r] = 0 \/ stored[r] > 0
  BY <1>1
<1>3. CASE stored[r] > 0
  <2>1. stored[r] # 0
    BY <1>1, <1>3
  <2>2. Fate(r) = "kept"
    BY <1>3, <2>1 DEF Fate
  <2>3. QED
    BY <1>3, <2>2 DEF Kept
<1>4. CASE stored[r] = 0
  <2>1. ~(stored[r] > 0)
    BY <1>4
  <2>2. CASE outcome[r] \in {"failed: completed", "failed: interrupted"}
    BY <1>4, <2>1, <2>2 DEF Fate, Kept
  <2>3. CASE outcome[r] \notin {"failed: completed", "failed: interrupted"}
    BY <1>4, <2>1, <2>3 DEF Fate, Kept
  <2>4. QED
    BY <2>2, <2>3
<1>5. QED
  BY <1>2, <1>3, <1>4

LEMMA FateIsNext ==
  ASSUME NEW r \in Requests
  PROVE  (TypeOK => /\ Fate(r) \in {"open", "kept", "lost"}
                    /\ Fate(r) = "kept" <=> stored[r] > 0
                    /\ Fate(r) # "open" <=> Kept(r))'
BY FateIs, PTL

(* What a step may do to the account of one turn.                          *)
Quiet(r) ==
  /\ Fate(r)' = Fate(r)
  /\ recorded'[r] = recorded[r] /\ charged'[r] = charged[r]
  /\ interrupts'[r] > 0 <=> interrupts[r] > 0
Stops(r) ==
  /\ ~charged[r] /\ interrupts'[r] > 0
  /\ Fate(r)' = Fate(r)
  /\ recorded'[r] = recorded[r] /\ charged'[r] = charged[r]
Settles(r) ==
  /\ Kept(r)' /\ (stored[r] > 0 => stored'[r] > 0)
  /\ recorded'[r] = recorded[r] \/ (recorded[r] = 0 /\ recorded'[r] = 1)
  /\ charged'[r] = charged[r]
  /\ interrupts'[r] > 0 <=> interrupts[r] > 0
Charges(r) ==
  /\ interrupts[r] = 0 /\ interrupts'[r] = 0 /\ Kept(r)
  /\ Fate(r)' = Fate(r) /\ recorded'[r] = recorded[r] /\ charged'[r] = TRUE

LEMMA AccountOfOthers ==
  ASSUME NEW q, Same(q)
  PROVE  Quiet(q)
BY DEF Same, Quiet, Fate

LEMMA AccountStep ==
  ASSUME TypeOK, TypeOK', NEW r \in Requests, \A q \in Requests \ {r} : Same(q),
         Quiet(r) \/ Stops(r) \/ Settles(r) \/ Charges(r)
  PROVE  [Account!Next]_(Account!vars)
<1> DEFINE stopped == [q \in Requests |-> interrupts[q] > 0]
           fate == [q \in Requests |-> Fate(q)]
<1>1. \A q \in Requests \ {r} :
        /\ stopped'[q] = stopped[q] /\ fate'[q] = fate[q]
        /\ recorded'[q] = recorded[q] /\ charged'[q] = charged[q]
  BY AccountOfOthers DEF Quiet
<1>2. /\ recorded = [q \in Requests |-> recorded[q]]
      /\ recorded' = [q \in Requests |-> recorded'[q]]
      /\ charged = [q \in Requests |-> charged[q]]
      /\ charged' = [q \in Requests |-> charged'[q]]
  BY DEF TypeOK
<1>3. /\ stopped[r] = (interrupts[r] > 0) /\ stopped'[r] = (interrupts'[r] > 0)
      /\ fate[r] = Fate(r) /\ fate'[r] = Fate(r)'
  OBVIOUS
<1>4. /\ stopped = [q \in Requests |-> stopped[q]]
      /\ stopped' = [q \in Requests |-> stopped'[q]]
      /\ fate = [q \in Requests |-> fate[q]]
      /\ fate' = [q \in Requests |-> fate'[q]]
  OBVIOUS
<1>5. CASE Quiet(r)
  <2>1. /\ \A q \in Requests : stopped'[q] = stopped[q]
        /\ \A q \in Requests : fate'[q] = fate[q]
        /\ \A q \in Requests : recorded'[q] = recorded[q]
        /\ \A q \in Requests : charged'[q] = charged[q]
    BY <1>1, <1>3, <1>5 DEF Quiet
  <2>2. stopped' = stopped /\ fate' = fate /\ recorded' = recorded /\ charged' = charged
    BY <1>2, <1>4, <2>1
  <2>3. QED
    BY <2>2 DEF Account!vars
<1>6. CASE Stops(r)
  <2>1. /\ ~charged[r] /\ stopped'[r] = TRUE /\ fate'[r] = fate[r]
        /\ recorded'[r] = recorded[r] /\ charged'[r] = charged[r]
    BY <1>3, <1>6 DEF Stops
  <2>2. stopped' = [stopped EXCEPT ![r] = TRUE]
    BY <1>1, <1>4, <2>1
  <2>3. fate' = fate
    BY <1>1, <1>4, <2>1
  <2>4. recorded' = recorded /\ charged' = charged
    BY <1>1, <1>2, <2>1
  <2>5. Account!Stop(r)
    BY <2>1, <2>2, <2>3, <2>4 DEF Account!Stop
  <2>6. QED
    BY <2>5 DEF Account!Next
<1>7. CASE Settles(r)
  <2>1. /\ fate'[r] \in {"kept", "lost"}
        /\ fate[r] = "kept" => fate'[r] = "kept"
    BY <1>3, <1>7, FateIs, FateIsNext DEF Settles
  <2>2. stopped' = stopped /\ charged' = charged
    BY <1>1, <1>2, <1>3, <1>4, <1>7 DEF Settles
  <2>3. fate' = [fate EXCEPT ![r] = fate'[r]]
    BY <1>1, <1>4
  <2>4. Account!Settled(r)
    BY <2>1, <2>3 DEF Account!Settled
  <2>5. CASE recorded'[r] = recorded[r]
    <3>1. recorded' = recorded
      BY <1>1, <1>2, <2>5
    <3>2. QED
      BY <2>2, <2>4, <3>1 DEF Account!Settle, Account!Next
  <2>6. CASE recorded[r] = 0 /\ recorded'[r] = 1
    <3>1. recorded' = [recorded EXCEPT ![r] = 1]
      BY <1>1, <1>2, <2>6
    <3>2. QED
      BY <2>2, <2>4, <2>6, <3>1 DEF Account!List, Account!Next
  <2>7. QED
    BY <1>7, <2>5, <2>6 DEF Settles
<1>8. CASE Charges(r)
  <2>1. /\ ~(interrupts[r] > 0) /\ ~(interrupts'[r] > 0)
        /\ Fate(r) # "open"
    BY <1>8, FateIs DEF Charges
  <2>2. /\ stopped'[r] = stopped[r] /\ fate'[r] = fate[r]
        /\ recorded'[r] = recorded[r] /\ charged'[r] = TRUE
    BY <1>3, <1>8, <2>1 DEF Charges
  <2>3. \A q \in Requests : stopped'[q] = stopped[q] /\ fate'[q] = fate[q]
    BY <1>1, <2>2
  <2>4. stopped' = stopped /\ fate' = fate
    BY <1>4, <2>3
  <2>5. recorded' = recorded /\ charged' = [charged EXCEPT ![r] = TRUE]
    BY <1>1, <1>2, <2>2
  <2>6. ~stopped[r] /\ fate[r] # "open"
    BY <1>3, <2>1
  <2>7. Account!Charge(r)
    BY <2>4, <2>5, <2>6 DEF Account!Charge
  <2>8. QED
    BY <2>7 DEF Account!Next
<1>9. QED
  BY <1>5, <1>6, <1>7, <1>8

(* Each action does one of these to its request.                           *)
LEMMA QuietSteps ==
  ASSUME TypeOK, NEW r \in Requests, RequestInv(r),
         \/ Start(r) \/ StartSent(r) \/ Compact(r) \/ CompactionFails(r)
         \/ Forward(r) \/ ModelFails(r) \/ LastSent(r) \/ TopicFails(r)
         \/ TopicEnds(r) \/ Disconnect(r) \/ DieSending(r) \/ Close(r)
  PROVE  Quiet(r)
<1>1. /\ stored' = stored /\ outcome' = outcome /\ recorded' = recorded
      /\ charged' = charged /\ interrupts' = interrupts
  BY DEF Start, StartSent, Compact, CompactionFails, Forward, ModelFails, LastSent,
         TopicFails, TopicEnds, Disconnect, DieSending, Close, storeVars, callVars,
         bookVars
<1>2. QED
  BY <1>1 DEF Quiet, Fate

LEMMA InterruptStops ==
  ASSUME TypeOK, NEW r \in Requests, RequestInv(r), Interrupt(r)
  PROVE  Stops(r)
<1>1. /\ stored' = stored /\ outcome' = outcome /\ recorded' = recorded
      /\ charged' = charged /\ interrupts'[r] = interrupts[r] + 1
      /\ interrupts[r] \in 0..MaxInterrupts /\ registered[r]
      /\ stage[r] \notin Done
  BY DEF Interrupt, storeVars, bookVars, TypeOK
<1>2. ~charged[r]
  BY <1>1 DEF RequestInv, CancelledFirst, Accounting
<1>3. interrupts'[r] > 0
  BY <1>1, StreamAssumption
<1>4. QED
  BY <1>1, <1>2, <1>3 DEF Stops, Fate

(* The writes of a turn: by OGX, by the stream, by whoever persists.       *)
LEMMA PersistIsQuiet ==
  ASSUME TypeOK, NEW r \in Requests, KeptInv(r), NEW who \in {"handler", "callback"},
         ~guard[r], Persist(r, who), interrupts' = interrupts,
         recorded' = recorded, charged' = charged
  PROVE  Quiet(r)
<1>1. StartWrite(r, who, "interrupted") /\ stored' = stored /\ outcome[r] = "pending"
  BY DEF Persist, KeptInv
<1>2. outcome'[r] = "interrupted"
  BY <1>1, StartWriteEffect DEF Writers
<1>3. Fate(r)' = Fate(r)
  BY <1>1, <1>2 DEF Fate
<1>4. QED
  BY <1>3 DEF Quiet

LEMMA RecordOnce ==
  ASSUME TypeOK, NEW r \in Requests, recorded[r] = 0, Record(r)
  PROVE  recorded'[r] = recorded[r] \/ (recorded[r] = 0 /\ recorded'[r] = 1)
<1>1. CASE recorded' = [recorded EXCEPT ![r] = @ + 1]
  <2>1. recorded'[r] = recorded[r] + 1
    BY <1>1 DEF TypeOK
  <2>2. QED
    BY <2>1
<1>2. CASE UNCHANGED recorded
  <2>1. recorded'[r] = recorded[r]
    BY <1>2
  <2>2. QED
    BY <2>1
<1>3. QED
  BY <1>1, <1>2 DEF Record

LEMMA WritingSettles ==
  ASSUME NEW r \in Requests, Kept(r)', stored[r] > 0 => stored'[r] > 0,
         recorded' = recorded, charged' = charged, interrupts' = interrupts
  PROVE  Settles(r)
<1>1. /\ recorded'[r] = recorded[r] /\ charged'[r] = charged[r]
      /\ interrupts'[r] = interrupts[r]
  OBVIOUS
<1>2. QED
  BY <1>1 DEF Settles

LEMMA FinishPersistSettles ==
  ASSUME TypeOK, NEW r \in Requests, RequestInv(r), KeptInv(r), NEW who \in Writers,
         FinishPersist(r, who), interrupts' = interrupts
  PROVE  Settles(r)
<1>1. /\ who \in persisting[r] /\ WriteEnds(r, who) /\ Record(r)
      /\ charged' = charged
  BY DEF FinishPersist
<1>2. who \in writing[r] /\ recorded[r] = 0
  BY <1>1 DEF KeptInv, RequestInv, OneRecorder
<1>3. /\ Kept(r)' /\ stored'[r] >= stored[r] /\ stored[r] \in Nat
      /\ stored'[r] \in Nat
  BY <1>1, <1>2, EndedWriteIsKept, WriteEndsEffect DEF RequestInv
<1>4. stored[r] > 0 => stored'[r] > 0
  BY <1>3
<1>5. QED
  BY <1>1, <1>2, <1>3, <1>4, RecordOnce DEF Settles

LEMMA InterruptionAccount ==
  ASSUME TypeOK, NEW r \in Requests, RequestInv(r), KeptInv(r),
         Callback(r) \/ CallbackEnds(r) \/ HandleCancel(r) \/ HandlerEnds(r)
  PROVE  Quiet(r) \/ Settles(r)
<1>1. CASE Callback(r) \/ HandleCancel(r)
  <2>1. interrupts' = interrupts /\ recorded' = recorded /\ charged' = charged
    BY <1>1 DEF Callback, HandleCancel, callVars, bookVars
  <2>2. CASE guard[r]
    <3>1. stored' = stored /\ outcome' = outcome
      BY <1>1, <2>2 DEF Callback, HandleCancel, storeVars
    <3>2. QED
      BY <2>1, <3>1 DEF Quiet, Fate
  <2>3. CASE ~guard[r]
    <3>1. Persist(r, "callback") \/ Persist(r, "handler")
      BY <1>1, <2>3 DEF Callback, HandleCancel
    <3>2. QED
      BY <2>1, <2>3, <3>1, PersistIsQuiet
  <2>4. QED
    BY <2>2, <2>3
<1>2. CASE CallbackEnds(r) \/ HandlerEnds(r)
  <2>1. /\ FinishPersist(r, "callback") \/ FinishPersist(r, "handler")
        /\ interrupts' = interrupts
    BY <1>2 DEF CallbackEnds, HandlerEnds, callVars
  <2>2. QED
    BY <2>1, FinishPersistSettles DEF Writers
<1>3. QED
  BY <1>1, <1>2

LEMMA AnswerAccount ==
  ASSUME TypeOK, NEW r \in Requests, RequestInv(r), KeptInv(r),
         OgxAnswers(r) \/ AnswerEnds(r)
  PROVE  Quiet(r) \/ Settles(r)
<1>1. CASE OgxAnswers(r)
  <2>1. /\ stored[r] \in Nat /\ stored'[r] = stored[r] + 1
        /\ recorded' = recorded /\ charged' = charged /\ interrupts' = interrupts
    BY <1>1 DEF OgxAnswers, TypeOK, callVars, bookVars
  <2>2. stored'[r] > 0
    BY <2>1
  <2>3. Kept(r)'
    BY <2>2 DEF Kept
  <2>4. QED
    BY <2>1, <2>2, <2>3, WritingSettles
<1>2. CASE AnswerEnds(r)
  <2>1. /\ stored' = stored /\ interrupts' = interrupts
        /\ recorded' = recorded /\ charged' = charged
    BY <1>2 DEF AnswerEnds, bookVars
  <2>2. CASE ~leftToOgx[r] /\ ~guard[r]
    <3>1. StartWrite(r, "completion", "completed") /\ outcome[r] = "pending"
      BY <1>2, <2>2 DEF AnswerEnds, KeptInv
    <3>2. outcome'[r] = "completed"
      BY <3>1, StartWriteEffect DEF Writers
    <3>3. QED
      BY <2>1, <3>1, <3>2 DEF Quiet, Fate
  <2>3. CASE ~(~leftToOgx[r] /\ ~guard[r])
    <3>1. outcome' = outcome
      BY <1>2, <2>3 DEF AnswerEnds
    <3>2. QED
      BY <2>1, <3>1 DEF Quiet, Fate
  <2>4. QED
    BY <2>2, <2>3
<1>3. QED
  BY <1>1, <1>2

LEMMA AccountingAccount ==
  ASSUME TypeOK, NEW r \in Requests, RequestInv(r), KeptInv(r),
         StoreEnds(r) \/ Charge(r) \/ EndSent(r)
  PROVE  Quiet(r) \/ Settles(r) \/ Charges(r)
<1>1. CASE StoreEnds(r)
  <2>1. /\ WriteEnds(r, "completion") /\ "completion" \in writing[r]
        /\ interrupts' = interrupts /\ recorded' = recorded /\ charged' = charged
    BY <1>1 DEF StoreEnds, KeptInv, callVars, bookVars
  <2>2. /\ Kept(r)' /\ stored'[r] >= stored[r] /\ stored[r] \in Nat
        /\ stored'[r] \in Nat
    BY <2>1, EndedWriteIsKept, WriteEndsEffect DEF RequestInv
  <2>3. stored[r] > 0 => stored'[r] > 0
    BY <2>2
  <2>4. QED
    BY <2>1, <2>2, <2>3, WritingSettles
<1>2. CASE Charge(r)
  <2>1. /\ stage[r] = "summing" /\ stored' = stored /\ outcome' = outcome
        /\ interrupts' = interrupts /\ recorded' = recorded
        /\ \E b \in BOOLEAN : charged' = [charged EXCEPT ![r] = b]
    BY <1>2 DEF Charge, storeVars, callVars
  <2>2. interrupts[r] = 0 /\ Kept(r) /\ ~charged[r]
    BY <2>1 DEF RequestInv, CancelledFirst, Accounting, KeptInv, Done
  <2>3. Fate(r)' = Fate(r)
    BY <2>1 DEF Fate
  <2>4. charged'[r] = TRUE \/ charged'[r] = FALSE
    BY <2>1 DEF TypeOK
  <2>5. CASE charged'[r] = TRUE
    BY <2>1, <2>2, <2>3, <2>5 DEF Charges
  <2>6. CASE charged'[r] = FALSE
    <3>1. charged[r] = FALSE
      BY <2>2 DEF TypeOK
    <3>2. QED
      BY <2>1, <2>3, <2>6, <3>1 DEF Quiet
  <2>7. QED
    BY <2>4, <2>5, <2>6
<1>3. CASE EndSent(r)
  <2>1. /\ stage[r] = "ending" /\ stored' = stored /\ outcome' = outcome
        /\ interrupts' = interrupts /\ charged' = charged /\ Record(r)
    BY <1>3 DEF EndSent, storeVars, callVars
  <2>2. Kept(r) /\ recorded[r] = 0
    BY <2>1 DEF RequestInv, CancelledFirst, Accounting, KeptInv
  <2>3. Kept(r)' /\ (stored[r] > 0 => stored'[r] > 0)
    BY <2>1, <2>2 DEF Kept
  <2>4. QED
    BY <2>1, <2>2, <2>3, RecordOnce DEF Settles
<1>4. QED
  BY <1>1, <1>2, <1>3

LEMMA KilledAccount ==
  ASSUME TypeOK, NEW r \in Requests, RequestInv(r), KeptInv(r), Killed(r)
  PROVE  Quiet(r) \/ Settles(r)
<1>1. interrupts' = interrupts /\ recorded' = recorded /\ charged' = charged
  BY DEF Killed, bookVars
<1>2. CASE \E who \in writing[r] \ {"callback"} : WriteFails(r, who)
  <2>1. PICK who \in writing[r] : WriteFails(r, who)
    BY <1>2
  <2>2. /\ Kept(r)' /\ stored'[r] >= stored[r] /\ stored[r] \in Nat
        /\ stored'[r] \in Nat
    BY <2>1, FailedWriteIsKept, WriteFailsEffect DEF RequestInv
  <2>3. stored[r] > 0 => stored'[r] > 0
    BY <2>2
  <2>4. QED
    BY <1>1, <2>2, <2>3, WritingSettles
<1>3. CASE UNCHANGED storeVars
  BY <1>1, <1>3 DEF storeVars, Quiet, Fate
<1>4. QED
  BY <1>2, <1>3 DEF Killed

(* The tasks that finish a turn keep one account of it, for any requests   *)
(* and interrupts, faults and disconnects.                                 *)
THEOREM TurnsAreAccountedFor == Spec => ImplementsTurnAccount
<1>1. Init => Account!Init
  <2>1. SUFFICES ASSUME Init PROVE Account!Init
    OBVIOUS
  <2>2. ASSUME NEW r \in Requests
        PROVE  (interrupts[r] > 0) = FALSE /\ Fate(r) = "open"
    BY <2>1 DEF Init, Fate
  <2>3. recorded = [r \in Requests |-> 0] /\ charged = [r \in Requests |-> FALSE]
    BY <2>1 DEF Init
  <2>4. QED
    BY <2>2, <2>3 DEF Account!Init
<1>2. /\ StreamInv /\ StreamInv' /\ (\A r \in Requests : KeptInv(r)) /\ [Next]_vars
      => [Account!Next]_(Account!vars)
  <2>1. SUFFICES ASSUME StreamInv, StreamInv', \A r \in Requests : KeptInv(r),
                        [Next]_vars
                 PROVE  [Account!Next]_(Account!vars)
    OBVIOUS
  <2>2. TypeOK /\ TypeOK' /\ \A r \in Requests : RequestInv(r)
    BY <2>1 DEF StreamInv, RequestInv
  <2>3. CASE UNCHANGED vars
    <3>1. interrupts' = interrupts /\ stored' = stored /\ outcome' = outcome
          /\ recorded' = recorded /\ charged' = charged
      BY <2>3 DEF vars, callVars, storeVars, bookVars
    <3>2. QED
      BY <3>1 DEF Account!vars, Fate
  <2>4. CASE Next
    <3>1. PICK r \in Requests :
            Start(r) \/ TaskStep(r) \/ BackgroundStep(r)
              \/ OgxAnswers(r) \/ Interrupt(r) \/ Disconnect(r)
      BY <2>4 DEF Next
    <3>2. RequestInv(r) /\ KeptInv(r)
      BY <2>1, <2>2
    <3>3. Quiet(r) \/ Stops(r) \/ Settles(r) \/ Charges(r)
      BY <2>2, <3>1, <3>2, QuietSteps, InterruptStops, InterruptionAccount,
         AnswerAccount, AccountingAccount, KilledAccount
         DEF TaskStep, Answering, BackgroundStep
    <3>4. \A q \in Requests \ {r} : Same(q)
      BY <2>2, <3>1, <3>2, StepIsLocal
    <3>5. QED
      BY <2>2, <3>3, <3>4, AccountStep
  <2>5. QED
    BY <2>1, <2>3, <2>4
<1>3. QED
  BY <1>1, <1>2, StreamInvHolds, KeptInvHolds, PTL
     DEF Spec, ImplementsTurnAccount, Account!Spec
==============================================================================
