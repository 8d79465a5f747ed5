-------------------------- MODULE ExecutionProofs ---------------------------
(***************************************************************************)
(* Proofs about the execution of a step. ExecutionReservation has its      *)
(* safety properties and implements AtMostOnceWrite, for every set of      *)
(* operations and every retry limit; LegacyEngine has its own for any      *)
(* steps, dependencies and concurrent calls.                               *)
(***************************************************************************)
EXTENDS ExecutionReservation, LegacyEngine, TLAPS

\* Among the attempts of an operation at most one owns the row, it owns it
\* while the row is RESERVED, and it has not called yet while it is calling.
OneOwner ==
    \A o \in Ops : \A n \in Attempts : pc[o][n] \in Owning =>
        /\ record[o] = [status |-> "RESERVED", version |-> 1]
        /\ \A m \in Attempts : pc[o][m] \in Owning => m = n
        /\ pc[o][n] = "calling" => calls[o] = 0
        /\ pc[o][n] # "calling" => calls[o] = 1
        /\ pc[o][n] = "called" => confirmed[o]

\* What the row says about the calls made.
RowTellsCalls ==
    \A o \in Ops :
        /\ calls[o] <= 1
        /\ record[o].status = "NONE" => calls[o] = 0
        /\ record[o].status = "SUCCEEDED" => confirmed[o] /\ calls[o] = 1

\* A success on its way to the workflow, or arrived there, is recorded.
AnswersRecorded ==
    \A o \in Ops :
        /\ result[o] = "ok" => record[o].status = "SUCCEEDED"
        /\ \A n \in Attempts : pc[o][n] = "retOk" => record[o].status = "SUCCEEDED"

IInv == TypeOK /\ OneOwner /\ RowTellsCalls /\ AnswersRecorded

\* The initial states satisfy the inductive invariant.
LEMMA InitIInv == Init => IInv
  BY AttemptsAssumption DEF Init, IInv, TypeOK, OneOwner, RowTellsCalls, AnswersRecorded,
     Attempts, Statuses, PCs, Owning, Returning, task

\* Ending attempt n and starting the next one keeps the invariant: no attempt
\* becomes an owner, and no new answer appears.
LEMMA RetryKeepsIInv ==
  ASSUME IInv, NEW o \in Ops, NEW n \in Attempts, NEW afterwards \in [Attempts -> PCs],
         \A m \in Attempts : afterwards[m] = pc[o][m] \/ afterwards[m] = "gone",
         RetryOrFail(o, n, afterwards), UNCHANGED <<record, calls, confirmed>>
  PROVE  IInv'
<1>1. /\ current' \in [Ops -> 0 .. MaxAttempts]
      /\ result' \in [Ops -> {"none", "ok", "error"}]
      /\ \A p \in Ops : result'[p] = "ok" => result[p] = "ok"
  <2>1. CASE n < MaxAttempts
    <3>1. current' = [current EXCEPT ![o] = n + 1] /\ result' = result
      BY <2>1, Zenon DEF RetryOrFail
    <3>2. n + 1 \in 0 .. MaxAttempts
      BY <2>1, AttemptsAssumption DEF Attempts
    <3>3. QED
      BY <3>1, <3>2, Zenon DEF IInv, TypeOK
  <2>2. CASE ~(n < MaxAttempts)
    <3>1. result' = [result EXCEPT ![o] = "error"] /\ current' = current
      BY <2>2, Zenon DEF RetryOrFail
    <3>2. QED
      BY <3>1, Zenon DEF IInv, TypeOK
  <2>3. QED
    BY <2>1, <2>2, Zenon
<1>2. /\ pc' \in [Ops -> [Attempts -> PCs]]
      /\ \A p \in Ops : \A m \in Attempts : pc'[p][m] \in {pc[p][m], "gone", "reserving"}
  <2>1. CASE n < MaxAttempts
    <3>1. n + 1 \in Attempts /\ "reserving" \in PCs
      BY <2>1, AttemptsAssumption DEF Attempts, PCs
    <3>2. pc' = [pc EXCEPT ![o] = [afterwards EXCEPT ![n + 1] = "reserving"]]
      BY <2>1, Zenon DEF RetryOrFail
    <3>3. [afterwards EXCEPT ![n + 1] = "reserving"] \in [Attempts -> PCs]
      BY <3>1, Zenon
    <3>4. QED
      BY <3>1, <3>2, <3>3, Zenon DEF IInv, TypeOK
  <2>2. CASE ~(n < MaxAttempts)
    <3>1. pc' = [pc EXCEPT ![o] = afterwards]
      BY <2>2, Zenon DEF RetryOrFail
    <3>2. QED
      BY <3>1, Zenon DEF IInv, TypeOK
  <2>3. QED
    BY <2>1, <2>2, Zenon
<1>3. TypeOK'
  BY <1>1, <1>2, Zenon DEF IInv, TypeOK
<1>4. OneOwner'
  <2>1. \A p \in Ops : \A m \in Attempts : pc'[p][m] \in Owning => pc'[p][m] = pc[p][m]
    BY <1>2, Zenon DEF Owning
  <2>2. QED
    BY <2>1 DEF IInv, OneOwner
<1>5. RowTellsCalls'
  BY Zenon DEF IInv, RowTellsCalls
<1>6. AnswersRecorded'
  BY <1>1, <1>2 DEF IInv, AnswersRecorded
<1>7. QED
  BY <1>3, <1>4, <1>5, <1>6, Zenon DEF IInv

\* An attempt that moves without touching the row, and without becoming an
\* owner or a new success, keeps the invariant.
LEMMA MoveKeepsIInv ==
  ASSUME IInv, NEW o \in Ops, NEW n \in Attempts,
         NEW next \in PCs \ (Owning \cup {"retOk"}),
         Goto(o, n, next), UNCHANGED <<record, task, calls, confirmed>>
  PROVE  IInv'
<1>1. /\ pc' \in [Ops -> [Attempts -> PCs]]
      /\ \A p \in Ops : \A m \in Attempts : pc'[p][m] \in {pc[p][m], next}
  BY Zenon DEF IInv, TypeOK, Goto
<1>2. TypeOK'
  BY <1>1, Zenon DEF IInv, TypeOK, task
<1>3. OneOwner'
  BY <1>1 DEF IInv, OneOwner
<1>4. RowTellsCalls'
  BY Zenon DEF IInv, RowTellsCalls
<1>5. AnswersRecorded'
  BY <1>1, Zenon DEF IInv, AnswersRecorded, task
<1>6. QED
  BY <1>2, <1>3, <1>4, <1>5, Zenon DEF IInv

\* Every step of every attempt, timeouts and crashes included, preserves it.
LEMMA NextIInv == IInv /\ [Next]_vars => IInv'
<1> SUFFICES ASSUME IInv, [Next]_vars PROVE IInv'
  OBVIOUS
<1>1. ASSUME NEW o \in Ops, ExecuteActivity(o) PROVE IInv'
  BY <1>1, AttemptsAssumption DEF ExecuteActivity, Goto, IInv, TypeOK, OneOwner,
     RowTellsCalls, AnswersRecorded, Attempts, Statuses, PCs, Owning, Returning
<1>2. ASSUME NEW o \in Ops, TimeOut(o) PROVE IInv'
  <2> DEFINE n == current[o]
  <2>1. n \in Attempts /\ pc[o] \in [Attempts -> PCs]
    BY <1>2 DEF TimeOut, IInv, TypeOK, Attempts
  <2>2. RetryOrFail(o, n, pc[o]) /\ UNCHANGED <<record, calls, confirmed>>
    BY <1>2, Zenon DEF TimeOut
  <2>3. QED
    BY <2>1, <2>2, RetryKeepsIInv, Zenon
<1>3. ASSUME NEW o \in Ops, NEW n \in Attempts, WorkerCrash(o, n) PROVE IInv'
  BY <1>3, MoveKeepsIInv, Zenon DEF WorkerCrash, PCs, Owning
<1>4. ASSUME NEW o \in Ops, NEW n \in Attempts, ReserveCreates(o, n) PROVE IInv'
  <2>1. CASE Goto(o, n, "calling")
    BY <1>4, <2>1 DEF ReserveCreates, Goto, IInv, TypeOK, OneOwner,
       RowTellsCalls, AnswersRecorded, Statuses, PCs, Owning, Returning, task
  <2>2. CASE Goto(o, n, "retRetryable")
    BY <1>4, <2>2 DEF ReserveCreates, Goto, IInv, TypeOK, OneOwner,
       RowTellsCalls, AnswersRecorded, Statuses, PCs, Owning, Returning, task
  <2>3. QED
    BY <1>4, <2>1, <2>2, Zenon DEF ReserveCreates
<1>5. ASSUME NEW o \in Ops, NEW n \in Attempts, ReserveFinds(o, n) PROVE IInv'
  <2>1. CASE record[o].status = "SUCCEEDED"
    BY <1>5, <2>1 DEF ReserveFinds, Goto, IInv, TypeOK, OneOwner,
       RowTellsCalls, AnswersRecorded, PCs, Owning, Returning, task
  <2>2. CASE record[o].status # "SUCCEEDED"
    BY <1>5, <2>2, MoveKeepsIInv, Zenon DEF ReserveFinds, PCs, Owning, Returning
  <2>3. QED
    BY <2>1, <2>2, Zenon
<1>6. ASSUME NEW o \in Ops, NEW n \in Attempts, ReserveFails(o, n) PROVE IInv'
  BY <1>6, MoveKeepsIInv, Zenon DEF ReserveFails, PCs, Owning, Returning
<1>7. ASSUME NEW o \in Ops, NEW n \in Attempts, CallExecutor(o, n) PROVE IInv'
  <2>1. CASE Goto(o, n, "called") /\ confirmed' = [confirmed EXCEPT ![o] = TRUE]
    BY <1>7, <2>1 DEF CallExecutor, Goto, IInv, TypeOK, OneOwner,
       RowTellsCalls, AnswersRecorded, PCs, Owning, Returning, task
  <2>2. CASE Goto(o, n, "refused") /\ UNCHANGED confirmed
    BY <1>7, <2>2 DEF CallExecutor, Goto, IInv, TypeOK, OneOwner,
       RowTellsCalls, AnswersRecorded, PCs, Owning, Returning, task
  <2>3. QED
    BY <1>7, <2>1, <2>2, Zenon DEF CallExecutor
<1>8. ASSUME NEW o \in Ops, NEW n \in Attempts, CompleteSucceeded(o, n) PROVE IInv'
  <2>1. CASE Goto(o, n, "retOk")
    BY <1>8, <2>1 DEF CompleteSucceeded, CompleteExecution, Goto, IInv, TypeOK, OneOwner,
       RowTellsCalls, AnswersRecorded, Statuses, PCs, Owning, Returning, task
  <2>2. CASE Goto(o, n, "retUnknown")
    BY <1>8, <2>2 DEF CompleteSucceeded, CompleteExecution, Goto, IInv, TypeOK, OneOwner,
       RowTellsCalls, AnswersRecorded, Statuses, PCs, Owning, Returning, task
  <2>3. QED
    BY <1>8, <2>1, <2>2, Zenon DEF CompleteSucceeded
<1>9. ASSUME NEW o \in Ops, NEW n \in Attempts, CompleteUnknown(o, n) PROVE IInv'
  BY <1>9 DEF CompleteUnknown, CompleteExecution, Goto, IInv, TypeOK, OneOwner,
     RowTellsCalls, AnswersRecorded, Statuses, PCs, Owning, Returning, task
<1>10. ASSUME NEW o \in Ops, NEW n \in Attempts, CompleteFails(o, n) PROVE IInv'
  BY <1>10, MoveKeepsIInv, Zenon DEF CompleteFails, PCs, Owning, Returning
<1>11. ASSUME NEW o \in Ops, NEW n \in Attempts, Report(o, n) PROVE IInv'
  <2> DEFINE reported == [pc[o] EXCEPT ![n] = "gone"]
             awaited == current[o] = n /\ result[o] = "none"
  <2>1. /\ reported \in [Attempts -> PCs]
        /\ \A m \in Attempts : reported[m] = pc[o][m] \/ reported[m] = "gone"
    BY Zenon DEF IInv, TypeOK, PCs
  <2>2. CASE awaited /\ pc[o][n] = "retRetryable"
    <3>1. RetryOrFail(o, n, reported) /\ UNCHANGED <<record, calls, confirmed>>
      BY <1>11, <2>2, Zenon DEF Report
    <3> HIDE DEF reported
    <3>2. QED
      BY <2>1, <3>1, RetryKeepsIInv, Zenon
  <2>3. CASE ~(awaited /\ pc[o][n] = "retRetryable")
    <3>1. /\ pc' = [pc EXCEPT ![o] = reported]
          /\ UNCHANGED <<record, calls, confirmed, current>>
      BY <1>11, <2>3, Zenon DEF Report
    <3>2. /\ pc' \in [Ops -> [Attempts -> PCs]]
          /\ \A p \in Ops : \A m \in Attempts : pc'[p][m] \in {pc[p][m], "gone"}
      BY <2>1, <3>1, Zenon DEF IInv, TypeOK
    <3>3. result' \in [Ops -> {"none", "ok", "error"}]
      BY <1>11, <2>3, Zenon DEF Report, IInv, TypeOK
    <3>4. \A p \in Ops : result'[p] = "ok" =>
             result[p] = "ok" \/ (p = o /\ pc[o][n] = "retOk")
      <4>1. CASE ~awaited
        <5>1. result' = result
          BY <1>11, <2>3, <4>1, Zenon DEF Report
        <5>2. QED
          BY <5>1, Zenon
      <4>2. CASE awaited /\ pc[o][n] # "retOk"
        <5>1. result' = [result EXCEPT ![o] = "error"]
          BY <1>11, <2>3, <4>2, Zenon DEF Report
        <5>2. QED
          BY <5>1, Zenon DEF IInv, TypeOK
      <4>3. CASE awaited /\ pc[o][n] = "retOk"
        <5>1. result' = [result EXCEPT ![o] = "ok"]
          BY <1>11, <2>3, <4>3, Zenon DEF Report
        <5>2. QED
          BY <4>3, <5>1, Zenon DEF IInv, TypeOK
      <4>4. QED
        BY <4>1, <4>2, <4>3, Zenon
    <3>5. TypeOK'
      BY <3>1, <3>2, <3>3, Zenon DEF IInv, TypeOK
    <3>6. OneOwner'
      BY <3>1, <3>2 DEF IInv, OneOwner, Owning
    <3>7. RowTellsCalls'
      BY <3>1, Zenon DEF IInv, RowTellsCalls
    <3>8. AnswersRecorded'
      BY <3>1, <3>2, <3>4 DEF IInv, AnswersRecorded
    <3>9. QED
      BY <3>5, <3>6, <3>7, <3>8, Zenon DEF IInv
  <2>4. QED
    BY <2>2, <2>3, Zenon
<1>12. CASE UNCHANGED vars
  BY <1>12 DEF vars, IInv, TypeOK, OneOwner, RowTellsCalls, AnswersRecorded
<1> QED
  BY <1>1, <1>2, <1>3, <1>4, <1>5, <1>6, <1>7, <1>8, <1>9, <1>10, <1>11, <1>12,
     Zenon DEF Next, AttemptStep

\* The type invariant, and the strengthening the other theorems rest on.
THEOREM TypeCorrect == Spec => []TypeOK
<1>1. IInv => TypeOK
  BY Zenon DEF IInv
<1>2. QED
  BY <1>1, InitIInv, NextIInv, PTL DEF Spec

\* No schedule of attempts, timeouts and crashes calls the executor twice for
\* one idempotency key.
THEOREM CalledAtMostOnce == Spec => []AtMostOneCall
<1>1. IInv => AtMostOneCall
  BY Zenon DEF IInv, RowTellsCalls, AtMostOneCall
<1>2. QED
  BY <1>1, InitIInv, NextIInv, PTL DEF Spec

\* Nothing is sent outside before its reservation is durable.
THEOREM CalledOnlyReserved == Spec => []CallIsReserved
<1>1. IInv => CallIsReserved
  BY DEF IInv, TypeOK, RowTellsCalls, CallIsReserved
<1>2. QED
  BY <1>1, InitIInv, NextIInv, PTL DEF Spec

\* What the workflow is told succeeded did, and is recorded.
THEOREM AnswerIsTrue == Spec => []SuccessIsRecorded
<1>1. IInv => SuccessIsRecorded
  BY Zenon DEF IInv, RowTellsCalls, AnswersRecorded, SuccessIsRecorded
<1>2. QED
  BY <1>1, InitIInv, NextIInv, PTL DEF Spec

\* How a step changes a row and the number of calls: it does not, or an attempt
\* reserves a free row, or an owner calls, or an owner completes its row.
LEMMA RowStep ==
  ASSUME IInv, [Next]_vars
  PROVE  \/ UNCHANGED <<record, calls>>
         \/ \E o \in Ops :
              /\ record[o].status = "NONE"
              /\ record' = [record EXCEPT ![o] = [status |-> "RESERVED", version |-> 1]]
              /\ calls' = calls
         \/ \E o \in Ops :
              /\ record[o].status = "RESERVED" /\ calls[o] = 0
              /\ calls' = [calls EXCEPT ![o] = 1]
              /\ record' = record
         \/ \E o \in Ops : \E status \in {"SUCCEEDED", "UNKNOWN"} :
              /\ record[o].status = "RESERVED" /\ calls[o] = 1
              /\ record' = [record EXCEPT ![o] = [status |-> status, version |-> 2]]
              /\ calls' = calls
<1>1. ASSUME NEW o \in Ops, NEW n \in Attempts, CallExecutor(o, n)
      PROVE  /\ record[o].status = "RESERVED" /\ calls[o] = 0
             /\ calls' = [calls EXCEPT ![o] = 1]
             /\ record' = record
  <2>1. record[o].status = "RESERVED" /\ calls[o] = 0
    BY <1>1 DEF IInv, OneOwner, Owning, CallExecutor
  <2>2. QED
    BY <1>1, <2>1 DEF CallExecutor
<1>2. ASSUME NEW o \in Ops, NEW n \in Attempts, CompleteSucceeded(o, n)
      PROVE  /\ record[o].status = "RESERVED" /\ calls[o] = 1
             /\ record' = [record EXCEPT ![o] = [status |-> "SUCCEEDED", version |-> 2]]
             /\ calls' = calls
  BY <1>2 DEF IInv, OneOwner, Owning, CompleteSucceeded, CompleteExecution
<1>3. ASSUME NEW o \in Ops, NEW n \in Attempts, CompleteUnknown(o, n)
      PROVE  /\ record[o].status = "RESERVED" /\ calls[o] = 1
             /\ record' = [record EXCEPT ![o] = [status |-> "UNKNOWN", version |-> 2]]
             /\ calls' = calls
  BY <1>3 DEF IInv, OneOwner, Owning, CompleteUnknown, CompleteExecution
<1>4. ASSUME NEW o \in Ops, NEW n \in Attempts, ReserveCreates(o, n)
      PROVE  /\ record[o].status = "NONE"
             /\ record' = [record EXCEPT ![o] = [status |-> "RESERVED", version |-> 1]]
             /\ calls' = calls
  BY <1>4, Zenon DEF ReserveCreates
<1>5. ASSUME NEW o \in Ops, NEW n \in Attempts,
             \/ ReserveFinds(o, n) \/ ReserveFails(o, n) \/ CompleteFails(o, n)
             \/ Report(o, n) \/ WorkerCrash(o, n)
      PROVE  UNCHANGED <<record, calls>>
  BY <1>5, Zenon DEF ReserveFinds, ReserveFails, CompleteFails, Report, WorkerCrash
<1>6. ASSUME NEW o \in Ops, ExecuteActivity(o) \/ TimeOut(o)
      PROVE  UNCHANGED <<record, calls>>
  BY <1>6, Zenon DEF ExecuteActivity, TimeOut
<1>7. CASE UNCHANGED vars
  BY <1>7, Zenon DEF vars
<1>8. QED
  BY <1>1, <1>2, <1>3, <1>4, <1>5, <1>6, <1>7, Zenon DEF Next, AttemptStep

\* A completed row never changes again.
THEOREM CompletedStays == Spec => CompletedIsFinal
<1>1. ASSUME IInv, [Next]_vars
      PROVE  [\A o \in Ops : record[o].status \in {"SUCCEEDED", "UNKNOWN"}
                => record'[o] = record[o]]_vars
  BY <1>1, RowStep, Zenon DEF IInv, TypeOK
<1>2. QED
  BY <1>1, InitIInv, NextIInv, PTL DEF Spec, CompletedIsFinal

\* The Deploy and Rollback activities implement the at-most-once journal.
THEOREM Refinement == Spec => ImplementsJournal
<1>1. Init => Journal!Init
  BY DEF Init, Journal!Init, stageOf, journalOf
<1>2. ASSUME IInv, [Next]_vars PROVE [Journal!Next]_(Journal!vars)
  <2> USE DEF IInv, TypeOK, Statuses, stageOf, journalOf
  <2>1. CASE UNCHANGED <<record, calls>>
    BY <2>1, Zenon DEF Journal!vars
  <2>2. ASSUME NEW o \in Ops, record[o].status = "NONE",
               record' = [record EXCEPT ![o] = [status |-> "RESERVED", version |-> 1]],
               calls' = calls
        PROVE  Journal!Claim(o)
    BY <1>2, <2>2, ZenonT(40) DEF Journal!Claim, RowTellsCalls
  <2>3. ASSUME NEW o \in Ops, record[o].status = "RESERVED", calls[o] = 0,
               calls' = [calls EXCEPT ![o] = 1], record' = record
        PROVE  Journal!Write(o)
    <3>1. \A p \in Ops : stageOf'[p] = IF p = o THEN "written" ELSE stageOf[p]
      <4>1. \A p \in Ops : record'[p] = record[p] /\ calls'[p] = IF p = o THEN 1 ELSE calls[p]
        BY <1>2, <2>3, Zenon
      <4>2. QED
        BY <2>3, <4>1 DEF stageOf
    <3>2. stageOf' = [stageOf EXCEPT ![o] = "written"]
      BY <3>1, Zenon DEF stageOf
    <3>3. stageOf[o] = "claimed" /\ UNCHANGED journalOf
      BY <2>3, Zenon
    <3>4. QED
      BY <3>2, <3>3, Zenon DEF Journal!Write
  <2>4. ASSUME NEW o \in Ops, record[o].status = "RESERVED", calls[o] = 1,
               record' = [record EXCEPT ![o] = [status |-> "SUCCEEDED", version |-> 2]],
               calls' = calls
        PROVE  Journal!Confirm(o)
    <3>1. journalOf' = [journalOf EXCEPT ![o] = "confirmed"]
      BY <1>2, <2>4, Zenon
    <3>2. UNCHANGED stageOf
      BY <1>2, <2>4, Zenon
    <3>3. stageOf[o] = "written" /\ journalOf[o] # "confirmed"
      BY <2>4
    <3>4. QED
      BY <3>1, <3>2, <3>3, Zenon DEF Journal!Confirm
  <2>5. ASSUME NEW o \in Ops, record[o].status = "RESERVED", calls[o] = 1,
               record' = [record EXCEPT ![o] = [status |-> "UNKNOWN", version |-> 2]],
               calls' = calls
        PROVE  Journal!Doubt(o)
    BY <1>2, <2>5, Zenon DEF Journal!Doubt
  <2>6. QED
    BY <1>2, <2>1, <2>2, <2>3, <2>4, <2>5, RowStep, Zenon DEF Journal!Next
<1>3. QED
  BY <1>1, <1>2, InitIInv, NextIInv, PTL DEF Spec, ImplementsJournal, Journal!Spec

-----------------------------------------------------------------------------
(* LegacyEngine *)

Decided == {"APPROVED", "DENIED", "EXPIRED"}
Begun == {"VERIFYING", "ROLLING_BACK", "SUCCEEDED"}

\* The calls that hold a copy of the run.
Holding == {"writing", "deciding", "advance", "verify", "rollback", "reverify"}
Acting == {"verify", "rollback", "reverify"}

EngineTypes ==
    /\ stored \in Runs
    /\ copy \in [Calls -> Runs]
    /\ at \in [Calls -> {"idle", "writing", "deciding", "rereading", "advance",
                         "verify", "rollback", "reverify", "done"}]
    /\ deployed \subseteq Steps /\ passed \subseteq Steps /\ rolledBack \subseteq Steps

\* What a run says of its steps is true outside, and only an approval the policy
\* asks for is pending, on a step that has not begun.
Truthful(run, outside, verified) ==
    \A i \in Steps :
        /\ run.steps[i] \in Begun => i \in outside /\ run.approval[i] # "PENDING"
        /\ run.steps[i] = "SUCCEEDED" => i \in verified
        /\ run.approval[i] # "NONE" => Decision[i] = "REQUIRE_APPROVAL"

\* A run derived from another keeps its decisions and its successes.
Keeps(run, old) ==
    \A i \in Steps :
        /\ old.approval[i] \in Decided => run.approval[i] = old.approval[i]
        /\ old.steps[i] = "SUCCEEDED" => run.steps[i] = "SUCCEEDED"

\* What a run takes for approved, the store shows as approved.
Given(run, store) ==
    \A i \in Steps : run.approval[i] = "APPROVED" => store.approval[i] = "APPROVED"

\* What a call that goes on at a place knows of its copy.
Knows(run, place, store, outside, verified) ==
    /\ run.version \in 1 .. store.version
    /\ Truthful(run, outside, verified)
    /\ run.version = store.version => Keeps(run, store)
    /\ place # "deciding" => Given(run, store)
    /\ place \in Acting => \E i \in Steps : run.steps[i] \in {"VERIFYING", "ROLLING_BACK"}

CopyInv ==
    \A c \in Calls : at[c] \in Holding => Knows(copy[c], at[c], stored, deployed, passed)

EngineIInv ==
    /\ EngineTypes
    /\ stored.version = 0 => stored = NewRun /\ \A c \in Calls : at[c] \in {"idle", "done"}
    /\ Truthful(stored, deployed, passed)
    /\ CopyInv
    /\ Authorised

-----------------------------------------------------------------------------
(* Operators *)

\* A run that ends, pauses or resumes keeps what was decided and what succeeded.
LEMMA Derived ==
    ASSUME NEW run, NEW old, NEW store, NEW outside, NEW verified,
           run.version = old.version, run.approval = old.approval,
           \A i \in Steps : \/ run.steps[i] = old.steps[i]
                            \/ old.steps[i] # "SUCCEEDED" /\ run.steps[i] \notin Begun
    PROVE  /\ Truthful(old, outside, verified) => Truthful(run, outside, verified)
           /\ Keeps(old, store) => Keeps(run, store)
           /\ Given(old, store) => Given(run, store)
BY Zenon DEF Truthful, Keeps, Given, Begun

\* What more is done outside makes no run false.
LEMMA TruthGrows ==
    ASSUME NEW run, NEW outside, NEW verified, NEW more, NEW checked,
           outside \subseteq more, verified \subseteq checked,
           Truthful(run, outside, verified)
    PROVE  Truthful(run, more, checked)
BY Zenon DEF Truthful

\* The step a call acts on.
LEMMA CurrentStep ==
    ASSUME NEW c \in Calls,
           \E i \in Steps : copy[c].steps[i] \in {"VERIFYING", "ROLLING_BACK"}
    PROVE  Current(c) \in Steps /\ copy[c].steps[Current(c)] \in {"VERIFYING", "ROLLING_BACK"}
BY Zenon DEF Current

\* A stopped run is a run, and stops a step that has not succeeded.
LEMMA StoppedRun ==
    ASSUME NEW run \in Runs, NEW i \in Steps, NEW step \in StepStatuses \ Begun,
           NEW state \in RunStatuses, run.steps[i] # "SUCCEEDED"
    PROVE  LET s == Stopped(run, i, step, state) IN
           /\ s \in Runs /\ s.version = run.version /\ s.approval = run.approval
           /\ \A j \in Steps : \/ s.steps[j] = run.steps[j]
                               \/ run.steps[j] # "SUCCEEDED" /\ s.steps[j] \notin Begun
PROOF
<1> DEFINE s == Stopped(run, i, step, state)
           steps == [j \in Steps |-> IF j = i THEN step
                                     ELSE IF j > i /\ run.steps[j] = "PENDING" THEN "CANCELLED"
                                     ELSE run.steps[j]]
<1>1. s = [run EXCEPT !.status = state, !.steps = steps]
  BY Zenon DEF Stopped
<1>2. steps \in [Steps -> StepStatuses]
  BY Zenon DEF Runs, StepStatuses
<1>3. s \in Runs /\ s.version = run.version /\ s.approval = run.approval /\ s.steps = steps
  <2> HIDE DEF steps, s
  <2> QED
    BY <1>1, <1>2, Zenon DEF Runs
<1>4. \A j \in Steps : \/ steps[j] = run.steps[j]
                       \/ run.steps[j] # "SUCCEEDED" /\ steps[j] \notin Begun
  BY Zenon DEF Begun
<1> QED
  BY <1>3, <1>4, Zenon

-----------------------------------------------------------------------------
(* Steps *)

\* A call goes on with a copy it knows enough of, or ends.
LEMMA LocalStep ==
    ASSUME EngineIInv, NEW c \in Calls, NEW run \in Runs,
           NEW next \in Holding \cup {"done"}, Local(c, run, next),
           stored' = stored,
           deployed \subseteq deployed', deployed' \subseteq Steps,
           passed \subseteq passed', passed' \subseteq Steps, rolledBack' \subseteq Steps,
           \A i \in deployed' \ deployed :
              \/ Decision[i] = "ALLOW"
              \/ Decision[i] = "REQUIRE_APPROVAL" /\ stored.approval[i] = "APPROVED",
           next \in Holding => Knows(run, next, stored, deployed', passed')
    PROVE  EngineIInv'
PROOF
<1>1. /\ stored \in Runs /\ copy \in [Calls -> Runs]
      /\ at \in [Calls -> {"idle", "writing", "deciding", "rereading", "advance",
                           "verify", "rollback", "reverify", "done"}]
      /\ Truthful(stored, deployed, passed) /\ CopyInv /\ Authorised
  BY Zenon DEF EngineIInv, EngineTypes
<1>2. copy' = [copy EXCEPT ![c] = run] /\ at' = [at EXCEPT ![c] = next]
  BY Zenon DEF Local
<1>3. EngineTypes'
  BY <1>1, <1>2, Zenon DEF EngineTypes, Holding
<1>4. Truthful(stored', deployed', passed')
  BY <1>1, TruthGrows, Zenon
<1>5. ASSUME NEW e \in Calls, at'[e] \in Holding
      PROVE  Knows(copy'[e], at'[e], stored', deployed', passed')
  <2>1. CASE e = c
    <3>1. copy'[e] = run /\ at'[e] = next
      BY <1>1, <1>2, <2>1, Zenon
    <3> QED
      BY <1>5, <3>1, Zenon
  <2>2. CASE e # c
    <3>1. copy'[e] = copy[e] /\ at'[e] = at[e]
      BY <1>1, <1>2, <2>2, Zenon
    <3>2. Knows(copy[e], at[e], stored, deployed, passed)
      BY <1>1, <1>5, <3>1, Zenon DEF CopyInv
    <3>3. Truthful(copy[e], deployed', passed')
      BY <3>2, TruthGrows, Zenon DEF Knows
    <3> QED
      BY <3>1, <3>2, <3>3, Zenon DEF Knows
  <2> QED
    BY <2>1, <2>2, Zenon
<1>6. Authorised'
  BY <1>1, Zenon DEF Authorised
<1>7. stored'.version = 0 => stored' = NewRun /\ \A e \in Calls : at'[e] \in {"idle", "done"}
  BY <1>1, <1>2 DEF EngineIInv, Knows
<1> QED
  BY <1>3, <1>4, <1>5, <1>6, <1>7, Zenon DEF EngineIInv, CopyInv

\* A write succeeds only on the version it was derived from, so it keeps what the
\* store knew; every other copy is old from then on.
LEMMA WriteStep ==
    ASSUME EngineIInv, NEW c \in Calls, at[c] \in {"writing", "deciding"}, UpdateRun(c),
           NEW next \in {"rereading", "done"}, Local(c, NewRun, next),
           UNCHANGED external
    PROVE  EngineIInv' /\ Keeps(stored', stored)
PROOF
<1>1. /\ stored \in Runs /\ copy \in [Calls -> Runs]
      /\ at \in [Calls -> {"idle", "writing", "deciding", "rereading", "advance",
                           "verify", "rollback", "reverify", "done"}]
      /\ deployed \subseteq Steps /\ passed \subseteq Steps /\ rolledBack \subseteq Steps
      /\ CopyInv /\ Authorised
  BY Zenon DEF EngineIInv, EngineTypes
<1>2. UNCHANGED <<deployed, passed, rolledBack>>
  BY Zenon DEF external
<1>3. Knows(copy[c], at[c], stored, deployed, passed)
  BY <1>1, Zenon DEF CopyInv, Holding
<1>4. /\ copy[c] \in Runs /\ copy[c].version = stored.version
      /\ stored' = [copy[c] EXCEPT !.version = copy[c].version + 1]
  BY <1>1, Zenon DEF UpdateRun
<1>5. /\ stored' \in Runs /\ stored'.steps = copy[c].steps
      /\ stored'.approval = copy[c].approval /\ stored'.version = stored.version + 1
      /\ stored.version \in Nat
  <2>1. copy[c].version \in Nat /\ stored.version \in Nat /\ copy[c].version + 1 \in Nat
    BY <1>1, <1>4 DEF Runs
  <2>2. stored' \in Runs
    BY <1>4, <2>1, Zenon DEF Runs
  <2>3. /\ stored'.steps = copy[c].steps /\ stored'.approval = copy[c].approval
        /\ stored'.version = copy[c].version + 1
    BY <1>4, Zenon DEF Runs
  <2>4. QED
    BY <1>4, <2>1, <2>2, <2>3, Zenon
<1>6. Truthful(stored', deployed, passed) /\ Keeps(stored', stored)
  BY <1>3, <1>4, <1>5 DEF Knows, Truthful, Keeps
<1>7. copy' = [copy EXCEPT ![c] = NewRun] /\ at' = [at EXCEPT ![c] = next]
  BY Zenon DEF Local
<1>8. EngineTypes'
  <2>1. NewRun \in Runs
    BY Zenon DEF NewRun, Runs, RunStatuses, StepStatuses,
       ApprovalStatuses
  <2> QED
    BY <1>1, <1>2, <1>5, <1>7, <2>1, Zenon DEF EngineTypes
<1>9. ASSUME NEW e \in Calls, at'[e] \in Holding
      PROVE  Knows(copy'[e], at'[e], stored', deployed', passed')
  <2>1. e # c
    BY <1>1, <1>7, <1>9, Zenon DEF Holding
  <2>2. copy'[e] = copy[e] /\ at'[e] = at[e]
    BY <1>1, <1>7, <2>1, Zenon
  <2>3. Knows(copy[e], at[e], stored, deployed, passed)
    BY <1>1, <1>9, <2>2, Zenon DEF CopyInv
  <2>4. copy[e].version \in 1 .. stored'.version /\ copy[e].version # stored'.version
    BY <1>5, <2>3 DEF Knows
  <2>5. Given(copy[e], stored) => Given(copy[e], stored')
    BY <1>6, Zenon DEF Given, Keeps, Decided
  <2> QED
    BY <1>2, <2>2, <2>3, <2>4, <2>5, Zenon DEF Knows
<1>10. Authorised'
  BY <1>1, <1>2, <1>6, Zenon DEF Authorised, Keeps, Decided
<1> QED
  BY <1>2, <1>5, <1>6, <1>8, <1>9, <1>10 DEF EngineIInv, CopyInv

\* A new call has read the stored run and keeps what it says.
LEMMA BeginStep ==
    ASSUME EngineIInv, NEW c \in Calls, NEW run \in Runs,
           NEW next \in {"deciding", "writing", "advance"}, Begin(c, run, next),
           run.version = stored.version, Truthful(run, deployed, passed),
           Keeps(run, stored), next # "deciding" => Given(run, stored)
    PROVE  EngineIInv'
PROOF
<1>1. /\ Local(c, run, next) /\ stored' = stored /\ stored.version > 0
      /\ UNCHANGED <<deployed, passed, rolledBack>>
  BY Zenon DEF Begin, external
<1>2. stored.version \in Nat /\ deployed \subseteq Steps /\ passed \subseteq Steps
      /\ rolledBack \subseteq Steps
  BY Zenon DEF EngineIInv, EngineTypes, Runs
<1>3. Knows(run, next, stored, deployed', passed')
  BY <1>1, <1>2 DEF Knows, Acting
<1> QED
  BY <1>1, <1>2, <1>3, LocalStep, Zenon DEF Holding

\* The stored run keeps what it says.
LEMMA StoredSelf == Keeps(stored, stored) /\ Given(stored, stored)
BY Zenon DEF Keeps, Given

\* Cancel, Pause and Resume: only the status and steps that have not begun change.
LEMMA ControlStep ==
    ASSUME EngineIInv, NEW c \in Calls,
           Cancel(c) \/ Pause(c) \/ ResumeWaiting(c) \/ ResumeRunning(c)
    PROVE  EngineIInv'
PROOF
<1>1. stored \in Runs /\ Truthful(stored, deployed, passed)
  BY Zenon DEF EngineIInv, EngineTypes
<1>2. CASE Cancel(c)
  <2> DEFINE steps == [i \in Steps |->
                        IF stored.steps[i] \in {"PENDING", "WAITING_APPROVAL"}
                        THEN "CANCELLED" ELSE stored.steps[i]]
             run == [stored EXCEPT !.status = "CANCELLED", !.steps = steps]
  <2>1. Begin(c, run, "writing")
    BY <1>2, Zenon DEF Cancel
  <2>2. steps \in [Steps -> StepStatuses]
    BY <1>1, Zenon DEF Runs, StepStatuses
  <2>3. \A i \in Steps : \/ steps[i] = stored.steps[i]
                         \/ stored.steps[i] # "SUCCEEDED" /\ steps[i] \notin Begun
    BY Zenon DEF Begun
  <2> HIDE DEF steps
  <2>4. /\ run \in Runs /\ run.version = stored.version /\ run.approval = stored.approval
        /\ run.steps = steps
    BY <1>1, <2>2, Zenon DEF Runs, RunStatuses
  <2> HIDE DEF run
  <2>5. Truthful(run, deployed, passed) /\ Keeps(run, stored) /\ Given(run, stored)
    BY <1>1, <2>3, <2>4, StoredSelf, Derived, Zenon
  <2> QED
    BY <2>1, <2>4, <2>5, BeginStep, Zenon
<1>3. ASSUME NEW state \in RunStatuses, NEW from \in {"NONE", "RUNNING", "WAITING_APPROVAL"},
             NEW next \in {"writing", "advance"},
             Begin(c, [stored EXCEPT !.status = state, !.pausedFrom = from], next)
      PROVE  EngineIInv'
  <2> DEFINE run == [stored EXCEPT !.status = state, !.pausedFrom = from]
  <2>1. /\ run \in Runs /\ run.version = stored.version /\ run.approval = stored.approval
        /\ run.steps = stored.steps
    BY <1>1, Zenon DEF Runs
  <2>2. Begin(c, run, next)
    BY <1>3, Zenon
  <2> HIDE DEF run
  <2>3. Truthful(run, deployed, passed) /\ Keeps(run, stored) /\ Given(run, stored)
    BY <1>1, <2>1, StoredSelf, Derived, Zenon
  <2> QED
    BY <2>1, <2>2, <2>3, BeginStep, Zenon
<1>4. CASE Pause(c)
  BY <1>3, <1>4, Zenon DEF Pause, RunStatuses
<1>5. CASE ResumeWaiting(c)
  BY <1>3, <1>5, Zenon DEF ResumeWaiting, RunStatuses
<1>6. CASE ResumeRunning(c)
  BY <1>3, <1>6, Zenon DEF ResumeRunning, RunStatuses
<1> QED
  BY <1>2, <1>4, <1>5, <1>6, Zenon

\* A decision is taken on a pending approval, whose step has not begun.
LEMMA DecideStep ==
    ASSUME EngineIInv, NEW c \in Calls, NEW i \in Steps,
           Approve(c, i) \/ Deny(c, i) \/ DecideTooLate(c, i)
    PROVE  EngineIInv'
PROOF
<1>1. /\ stored \in Runs /\ Truthful(stored, deployed, passed)
      /\ stored.approval[i] = "PENDING"
  BY Zenon DEF EngineIInv, EngineTypes, Approve, Deny, DecideTooLate
<1>2. ASSUME NEW answer \in Decided, NEW step \in {"PENDING", "BLOCKED"},
             NEW state \in RunStatuses, NEW next \in {"deciding", "writing"},
             answer = "APPROVED" => next = "deciding",
             Begin(c, [stored EXCEPT !.approval[i] = answer, !.steps[i] = step,
                                     !.status = state], next)
      PROVE  EngineIInv'
  <2> DEFINE run == [stored EXCEPT !.approval[i] = answer, !.steps[i] = step,
                                   !.status = state]
  <2>1. /\ run \in Runs /\ run.version = stored.version
        /\ run.approval = [stored.approval EXCEPT ![i] = answer]
        /\ run.steps = [stored.steps EXCEPT ![i] = step]
    BY <1>1, Zenon DEF Runs, Decided, StepStatuses, ApprovalStatuses
  <2>2. Begin(c, run, next)
    BY <1>2, Zenon
  <2> HIDE DEF run
  <2>3. /\ \A j \in Steps : run.approval[j] = IF j = i THEN answer ELSE stored.approval[j]
        /\ \A j \in Steps : run.steps[j] = IF j = i THEN step ELSE stored.steps[j]
    BY <1>1, <2>1, Zenon DEF Runs
  <2>4. Truthful(run, deployed, passed)
    BY <1>1, <2>3, Zenon DEF Truthful, Begun, Decided
  <2>5. Keeps(run, stored)
    BY <1>1, <2>3, Zenon DEF Truthful, Keeps, Begun, Decided
  <2>6. next # "deciding" => Given(run, stored)
    BY <1>2, <2>3, Zenon DEF Given
  <2> QED
    BY <2>1, <2>2, <2>4, <2>5, <2>6, BeginStep, Zenon
<1>3. CASE Approve(c, i)
  BY <1>2, <1>3, Zenon DEF Approve, Decided, RunStatuses
<1>4. CASE Deny(c, i)
  BY <1>2, <1>4, Zenon DEF Deny, Decided, RunStatuses
<1>5. CASE DecideTooLate(c, i)
  BY <1>2, <1>5, Zenon DEF DecideTooLate, Decided, RunStatuses
<1> QED
  BY <1>3, <1>4, <1>5, Zenon

-----------------------------------------------------------------------------
(* advance *)

\* A call stops its run at a step that has not succeeded.
LEMMA StopStep ==
    ASSUME EngineIInv, NEW c \in Calls, at[c] \in Holding \ {"deciding"}, NEW i \in Steps,
           copy[c].steps[i] # "SUCCEEDED",
           NEW step \in StepStatuses \ Begun, NEW state \in RunStatuses,
           Stop(c, i, step, state), stored' = stored,
           deployed \subseteq deployed', deployed' \subseteq Steps,
           passed' = passed, rolledBack' \subseteq Steps,
           \A j \in deployed' \ deployed :
              \/ Decision[j] = "ALLOW"
              \/ Decision[j] = "REQUIRE_APPROVAL" /\ stored.approval[j] = "APPROVED"
    PROVE  EngineIInv'
PROOF
<1> DEFINE run == Stopped(copy[c], i, step, state)
<1>1. copy[c] \in Runs /\ passed \subseteq Steps
  BY Zenon DEF EngineIInv, EngineTypes
<1>2. Knows(copy[c], at[c], stored, deployed, passed)
  BY Zenon DEF EngineIInv, CopyInv
<1>3. /\ run \in Runs /\ run.version = copy[c].version /\ run.approval = copy[c].approval
      /\ \A j \in Steps : \/ run.steps[j] = copy[c].steps[j]
                          \/ copy[c].steps[j] # "SUCCEEDED" /\ run.steps[j] \notin Begun
  BY <1>1, StoppedRun, Zenon
<1>4. Local(c, run, "writing")
  BY Zenon DEF Stop
<1> HIDE DEF run
<1>5. Truthful(copy[c], deployed', passed')
  BY <1>2, TruthGrows, Zenon DEF Knows
<1>6. /\ Truthful(run, deployed', passed')
      /\ Keeps(copy[c], stored) => Keeps(run, stored)
      /\ Given(run, stored)
  BY <1>2, <1>3, <1>5, Derived, Zenon DEF Knows
<1>7. Knows(run, "writing", stored, deployed', passed')
  BY <1>2, <1>3, <1>6, Zenon DEF Knows, Acting
<1> QED
  BY <1>1, <1>3, <1>4, <1>7, LocalStep, Zenon DEF Holding

\* What a step at the loop's place is, and what clears it.
LEMMA AtStepFacts ==
    ASSUME EngineIInv, NEW c \in Calls, NEW i \in Steps, AtStep(c, i)
    PROVE  /\ at[c] = "advance" /\ copy[c].steps[i] = "PENDING"
           /\ copy[c] \in Runs
           /\ Knows(copy[c], "advance", stored, deployed, passed)
           /\ Cleared(c, i) =>
                 /\ copy[c].approval[i] # "PENDING"
                 /\ \/ Decision[i] = "ALLOW"
                    \/ Decision[i] = "REQUIRE_APPROVAL" /\ stored.approval[i] = "APPROVED"
PROOF
<1>1. at[c] = "advance" /\ copy[c].steps[i] = "PENDING"
  BY Zenon DEF AtStep, PendingSteps
<1>2. copy[c] \in Runs
  BY Zenon DEF EngineIInv, EngineTypes
<1>3. Knows(copy[c], "advance", stored, deployed, passed)
  BY <1>1, Zenon DEF EngineIInv, CopyInv, Holding
<1>4. Truthful(copy[c], deployed, passed) /\ Given(copy[c], stored)
  BY <1>3, Zenon DEF Knows
<1> QED
  BY <1>1, <1>2, <1>3, <1>4, Zenon DEF Cleared, Truthful, Given

\* The steps that end a call's run.
LEMMA StopSteps ==
    ASSUME EngineIInv, NEW c \in Calls,
           \/ \E i \in Steps : Blocks(c, i) \/ DeployFails(c, i)
           \/ VerifyFails(c) \/ RollbackFails(c) \/ RollbackVerified(c)
           \/ VerifyDoesNotPass(c) /\ Current(c) \notin AutoRollback
    PROVE  EngineIInv'
PROOF
<1>1. /\ deployed \subseteq Steps /\ rolledBack \subseteq Steps
      /\ {"BLOCKED", "ESCALATED", "ROLLED_BACK"} \subseteq StepStatuses \ Begun
      /\ {"BLOCKED", "ESCALATED", "FAILED"} \subseteq RunStatuses
  BY Zenon DEF EngineIInv, EngineTypes, StepStatuses, RunStatuses, Begun
<1>2. ASSUME NEW i \in Steps, Blocks(c, i) PROVE EngineIInv'
  <2>1. Stop(c, i, "BLOCKED", "BLOCKED") /\ AtStep(c, i) /\ stored' = stored
        /\ UNCHANGED <<deployed, passed, rolledBack>>
    BY <1>2, Zenon DEF Blocks, external
  <2>2. at[c] = "advance" /\ copy[c].steps[i] = "PENDING"
    BY <2>1, Zenon DEF AtStep, PendingSteps
  <2> QED
    BY <1>1, <2>1, <2>2, StopStep, Zenon DEF Holding
<1>3. ASSUME NEW i \in Steps, DeployFails(c, i) PROVE EngineIInv'
  <2>1. /\ Stop(c, i, "BLOCKED", "BLOCKED") /\ AtStep(c, i) /\ Cleared(c, i)
        /\ stored' = stored /\ deployed' \in {deployed, deployed \cup {i}}
        /\ UNCHANGED <<passed, rolledBack>>
    BY <1>3, Zenon DEF DeployFails, Ready
  <2>2. /\ at[c] = "advance" /\ copy[c].steps[i] = "PENDING"
        /\ \/ Decision[i] = "ALLOW"
           \/ Decision[i] = "REQUIRE_APPROVAL" /\ stored.approval[i] = "APPROVED"
    BY <2>1, AtStepFacts
  <2> QED
    BY <1>1, <2>1, <2>2, StopStep, Zenon DEF Holding
<1>4. ASSUME at[c] \in Acting
      PROVE  Current(c) \in Steps /\ copy[c].steps[Current(c)] # "SUCCEEDED"
  <2>1. Knows(copy[c], at[c], stored, deployed, passed)
    BY <1>4, Zenon DEF EngineIInv, CopyInv, Holding, Acting
  <2> QED
    BY <1>4, <2>1, CurrentStep, Zenon DEF Knows
<1>5. ASSUME VerifyFails(c) \/ (VerifyDoesNotPass(c) /\ Current(c) \notin AutoRollback)
             \/ RollbackVerified(c)
      PROVE  EngineIInv'
  <2>1. /\ at[c] \in Acting /\ stored' = stored /\ UNCHANGED <<deployed, passed, rolledBack>>
        /\ \E step \in {"BLOCKED", "ESCALATED", "ROLLED_BACK"},
              state \in {"BLOCKED", "ESCALATED", "FAILED"} : Stop(c, Current(c), step, state)
    BY <1>5, Zenon DEF VerifyFails, VerifyDoesNotPass, RollbackVerified,
       Acting, external
  <2> QED
    BY <1>1, <1>4, <2>1, StopStep, Zenon DEF Holding, Acting
<1>6. ASSUME RollbackFails(c) PROVE EngineIInv'
  <2>1. /\ at[c] \in Acting /\ stored' = stored /\ UNCHANGED <<deployed, passed>>
        /\ Stop(c, Current(c), "ESCALATED", "ESCALATED")
        /\ rolledBack' \in {rolledBack, rolledBack \cup {Current(c)}}
    BY <1>6, Zenon DEF RollbackFails, Acting
  <2> QED
    BY <1>1, <1>4, <2>1, StopStep, Zenon DEF Holding, Acting
<1> QED
  BY <1>2, <1>3, <1>5, <1>6, Zenon

\* A step that was cleared is deployed; it is known to be outside from then on.
LEMMA DeployStep ==
    ASSUME EngineIInv, NEW c \in Calls, NEW i \in Steps, Deploys(c, i)
    PROVE  EngineIInv'
PROOF
<1> DEFINE run == [copy[c] EXCEPT !.steps[i] = "VERIFYING"]
<1>1. /\ AtStep(c, i) /\ Cleared(c, i) /\ Local(c, run, "verify")
      /\ deployed' = deployed \cup {i} /\ UNCHANGED <<stored, passed, rolledBack>>
  BY Zenon DEF Deploys, Ready
<1>2. /\ copy[c].steps[i] = "PENDING" /\ copy[c] \in Runs
      /\ Knows(copy[c], "advance", stored, deployed, passed)
      /\ copy[c].approval[i] # "PENDING"
      /\ \/ Decision[i] = "ALLOW"
         \/ Decision[i] = "REQUIRE_APPROVAL" /\ stored.approval[i] = "APPROVED"
  BY <1>1, AtStepFacts
<1>3. /\ run \in Runs /\ run.version = copy[c].version /\ run.approval = copy[c].approval
      /\ run.steps = [copy[c].steps EXCEPT ![i] = "VERIFYING"]
  BY <1>2, Zenon DEF Runs, StepStatuses
<1> HIDE DEF run
<1>4. \A j \in Steps : run.steps[j] = IF j = i THEN "VERIFYING" ELSE copy[c].steps[j]
  BY <1>2, <1>3, Zenon DEF Runs
<1>5. Truthful(run, deployed', passed')
  BY <1>1, <1>2, <1>3, <1>4 DEF Knows, Truthful, Begun
<1>6. /\ Keeps(copy[c], stored) => Keeps(run, stored)
      /\ Given(run, stored)
  BY <1>2, <1>3, <1>4, SMTT(30) DEF Knows, Keeps, Given
<1>7. Knows(run, "verify", stored, deployed', passed')
  BY <1>2, <1>3, <1>4, <1>5, <1>6, Zenon DEF Knows
<1>8. deployed \subseteq Steps /\ passed \subseteq Steps /\ rolledBack \subseteq Steps
  BY Zenon DEF EngineIInv, EngineTypes
<1> QED
  BY <1>1, <1>2, <1>3, <1>7, <1>8, LocalStep, Zenon DEF Holding

\* The step a call acts on passes, or is rolled back.
LEMMA VerifyStep ==
    ASSUME EngineIInv, NEW c \in Calls,
           \/ VerifyPasses(c) \/ Rollbacks(c)
           \/ VerifyDoesNotPass(c) /\ Current(c) \in AutoRollback
    PROVE  EngineIInv'
PROOF
<1> DEFINE i == Current(c)
<1>1. /\ at[c] \in Acting /\ copy[c] \in Runs
      /\ deployed \subseteq Steps /\ passed \subseteq Steps /\ rolledBack \subseteq Steps
  BY Zenon DEF EngineIInv, EngineTypes, VerifyPasses, Rollbacks,
     VerifyDoesNotPass, Acting
<1>2. Knows(copy[c], at[c], stored, deployed, passed)
  BY <1>1, Zenon DEF EngineIInv, CopyInv, Holding, Acting
<1>3. i \in Steps /\ copy[c].steps[i] \in {"VERIFYING", "ROLLING_BACK"}
  BY <1>1, <1>2, CurrentStep, Zenon DEF Knows
<1>4. ASSUME NEW step \in {"SUCCEEDED", "ROLLING_BACK"}, NEW next \in {"advance", "rollback"},
             Local(c, [copy[c] EXCEPT !.steps[i] = step], next),
             next = "rollback" => step = "ROLLING_BACK",
             UNCHANGED <<stored, deployed, rolledBack>>,
             passed' = IF step = "SUCCEEDED" THEN passed \cup {i} ELSE passed
      PROVE  EngineIInv'
  <2> DEFINE run == [copy[c] EXCEPT !.steps[i] = step]
  <2> HIDE DEF i
  <2>1. /\ run \in Runs /\ run.version = copy[c].version /\ run.approval = copy[c].approval
        /\ run.steps = [copy[c].steps EXCEPT ![i] = step]
    BY <1>1, <1>3, Zenon DEF Runs, StepStatuses
  <2>2. Local(c, run, next)
    BY <1>4, Zenon
  <2> HIDE DEF run
  <2>3. \A j \in Steps : run.steps[j] = IF j = i THEN step ELSE copy[c].steps[j]
    BY <1>1, <1>3, <2>1, Zenon DEF Runs
  <2>4. Truthful(run, deployed', passed')
    BY <1>2, <1>3, <1>4, <2>1, <2>3 DEF Knows, Truthful, Begun
  <2>5. /\ Keeps(copy[c], stored) => Keeps(run, stored)
        /\ Given(run, stored)
    BY <1>1, <1>2, <1>3, <2>1, <2>3, SMTT(30) DEF Knows, Keeps, Given, Acting
  <2>6. Knows(run, next, stored, deployed', passed')
    BY <1>2, <1>3, <1>4, <2>1, <2>3, <2>4, <2>5, Zenon DEF Knows, Acting
  <2>7. passed \subseteq passed' /\ passed' \subseteq Steps
    BY <1>1, <1>3, <1>4, Zenon
  <2> QED
    BY <1>1, <1>4, <2>1, <2>2, <2>6, <2>7, LocalStep, Zenon DEF Holding
<1>5. CASE VerifyPasses(c)
  BY <1>4, <1>5, Zenon DEF VerifyPasses
<1>6. CASE VerifyDoesNotPass(c) /\ i \in AutoRollback
  BY <1>4, <1>6, Zenon DEF VerifyDoesNotPass, external
<1>7. CASE Rollbacks(c)
  <2>1. /\ Local(c, copy[c], "reverify") /\ UNCHANGED <<stored, deployed, passed>>
        /\ rolledBack' \subseteq Steps
    BY <1>1, <1>3, <1>7, Zenon DEF Rollbacks
  <2>2. Knows(copy[c], "reverify", stored, deployed', passed')
    BY <1>1, <1>2, <2>1, Zenon DEF Knows, Acting
  <2> QED
    BY <1>1, <2>1, <2>2, LocalStep, Zenon DEF Holding
<1> QED
  BY <1>5, <1>6, <1>7, Zenon

\* An approval is requested for a step that has none; it blocks if the audit fails.
LEMMA AskStep ==
    ASSUME EngineIInv, NEW c \in Calls, NEW i \in Steps, AsksApproval(c, i)
    PROVE  EngineIInv'
PROOF
<1> DEFINE old == copy[c].approval[i]
           asked == [copy[c] EXCEPT !.approval[i] = IF old = "NONE" THEN "PENDING" ELSE old]
           waiting == [asked EXCEPT !.steps[i] = "WAITING_APPROVAL", !.status = "WAITING_APPROVAL"]
           stopped == Stopped(asked, i, "BLOCKED", "BLOCKED")
<1>1. /\ AtStep(c, i) /\ Decision[i] = "REQUIRE_APPROVAL" /\ stored' = stored
      /\ UNCHANGED <<deployed, passed, rolledBack>>
      /\ Local(c, waiting, "writing") \/ Local(c, stopped, "writing")
  BY Zenon DEF AsksApproval, Ready, external
<1>2. /\ copy[c].steps[i] = "PENDING" /\ copy[c] \in Runs
      /\ Knows(copy[c], "advance", stored, deployed, passed)
  BY <1>1, AtStepFacts, Zenon
<1>3. /\ asked \in Runs /\ asked.version = copy[c].version /\ asked.steps = copy[c].steps
      /\ asked.approval =
            [copy[c].approval EXCEPT ![i] = IF old = "NONE" THEN "PENDING" ELSE old]
  BY <1>2, Zenon DEF Runs, ApprovalStatuses
<1> HIDE DEF asked
<1>4. \A j \in Steps : asked.approval[j] = IF j = i /\ old = "NONE" THEN "PENDING"
                                           ELSE copy[c].approval[j]
  BY <1>2, <1>3 DEF Runs
<1> HIDE DEF old
<1>5. /\ Truthful(asked, deployed, passed)
      /\ Keeps(copy[c], stored) => Keeps(asked, stored)
      /\ Given(asked, stored)
  <2>1. Truthful(asked, deployed, passed)
    BY <1>1, <1>2, <1>3, <1>4 DEF Knows, Truthful, Begun
  <2>2. Keeps(copy[c], stored) => Keeps(asked, stored)
    BY <1>3, <1>4, Zenon DEF Keeps, Decided, old
  <2>3. Given(asked, stored)
    BY <1>2, <1>4, Zenon DEF Knows, Given
  <2> QED
    BY <2>1, <2>2, <2>3, Zenon
<1>6. /\ waiting \in Runs /\ waiting.version = asked.version /\ waiting.approval = asked.approval
      /\ \A j \in Steps : \/ waiting.steps[j] = asked.steps[j]
                          \/ asked.steps[j] # "SUCCEEDED" /\ waiting.steps[j] \notin Begun
  <2>1. /\ waiting \in Runs /\ waiting.version = asked.version
        /\ waiting.approval = asked.approval
        /\ waiting.steps = [asked.steps EXCEPT ![i] = "WAITING_APPROVAL"]
    BY <1>3, Zenon DEF Runs, StepStatuses, RunStatuses
  <2> HIDE DEF waiting
  <2> QED
    BY <1>2, <1>3, <2>1 DEF Runs, Begun
<1>7. /\ stopped \in Runs /\ stopped.version = asked.version /\ stopped.approval = asked.approval
      /\ \A j \in Steps : \/ stopped.steps[j] = asked.steps[j]
                          \/ asked.steps[j] # "SUCCEEDED" /\ stopped.steps[j] \notin Begun
  <2>1. "BLOCKED" \in StepStatuses \ Begun /\ "BLOCKED" \in RunStatuses
        /\ asked.steps[i] # "SUCCEEDED"
    BY <1>2, <1>3, Zenon DEF StepStatuses, RunStatuses, Begun
  <2> QED
    BY <1>3, <2>1, StoppedRun, Zenon
<1> HIDE DEF waiting, stopped
<1>8. PICK run \in {waiting, stopped} : Local(c, run, "writing")
  BY <1>1, Zenon
<1>9. /\ run \in Runs /\ run.version = asked.version /\ run.approval = asked.approval
      /\ \A j \in Steps : \/ run.steps[j] = asked.steps[j]
                          \/ asked.steps[j] # "SUCCEEDED" /\ run.steps[j] \notin Begun
  BY <1>6, <1>7, <1>8, Zenon
<1>10. /\ Truthful(run, deployed, passed)
       /\ Keeps(asked, stored) => Keeps(run, stored)
       /\ Given(run, stored)
  BY <1>5, <1>9, Derived, Zenon
<1>11. Knows(run, "writing", stored, deployed', passed')
  BY <1>1, <1>2, <1>3, <1>5, <1>9, <1>10, Zenon DEF Knows, Acting
<1>12. deployed \subseteq Steps /\ passed \subseteq Steps /\ rolledBack \subseteq Steps
  BY Zenon DEF EngineIInv, EngineTypes
<1> QED
  BY <1>1, <1>8, <1>9, <1>11, <1>12, LocalStep, Zenon DEF Holding

\* The other local steps: a call gives up, reads again, or finds nothing to do.
LEMMA QuietStep ==
    ASSUME EngineIInv, NEW c \in Calls, GivesUp(c) \/ ApprovalRereads(c) \/ NoneLeft(c)
    PROVE  EngineIInv'
PROOF
<1>1. /\ stored \in Runs /\ copy[c] \in Runs /\ NewRun \in Runs
      /\ deployed \subseteq Steps /\ passed \subseteq Steps /\ rolledBack \subseteq Steps
      /\ Truthful(stored, deployed, passed)
  BY Zenon DEF EngineIInv, EngineTypes, NewRun, Runs, RunStatuses,
     StepStatuses, ApprovalStatuses
<1>2. stored' = stored /\ UNCHANGED <<deployed, passed, rolledBack>>
  BY Zenon DEF GivesUp, ApprovalRereads, NoneLeft, external
<1>3. CASE GivesUp(c)
  BY <1>1, <1>2, <1>3, LocalStep, Zenon DEF GivesUp, Holding
<1>4. CASE ApprovalRereads(c)
  <2> stored.version # 0
    BY <1>4, Zenon DEF ApprovalRereads, EngineIInv
  <2>1. Knows(stored, "advance", stored, deployed', passed')
    BY <1>1, <1>2, <1>4, StoredSelf DEF Knows, Acting, Runs
  <2> QED
    BY <1>1, <1>2, <1>4, <2>1, LocalStep, Zenon DEF ApprovalRereads, Holding
<1>5. CASE NoneLeft(c)
  <2> DEFINE run == [copy[c] EXCEPT !.status = "SUCCEEDED"]
  <2>1. Local(c, run, "writing") /\ at[c] = "advance"
    BY <1>5, Zenon DEF NoneLeft
  <2>2. Knows(copy[c], "advance", stored, deployed, passed)
    BY <2>1, Zenon DEF EngineIInv, CopyInv, Holding
  <2>3. /\ run \in Runs /\ run.version = copy[c].version /\ run.approval = copy[c].approval
        /\ run.steps = copy[c].steps
    BY <1>1, Zenon DEF Runs, RunStatuses
  <2> HIDE DEF run
  <2>4. /\ Truthful(run, deployed, passed)
        /\ Keeps(copy[c], stored) => Keeps(run, stored)
        /\ Given(run, stored)
    BY <2>2, <2>3, Derived, Zenon DEF Knows
  <2>5. Knows(run, "writing", stored, deployed', passed')
    BY <1>2, <2>2, <2>3, <2>4, Zenon DEF Knows, Acting
  <2> QED
    BY <1>1, <1>2, <2>1, <2>3, <2>5, LocalStep, Zenon DEF Holding
<1> QED
  BY <1>3, <1>4, <1>5, Zenon

\* The run is created when no call holds a copy of it.
LEMMA StartStep ==
    ASSUME EngineIInv, NEW c \in Calls, Start(c)
    PROVE  EngineIInv' /\ Keeps(stored', stored)
PROOF
<1> DEFINE run == [NewRun EXCEPT !.version = 1]
<1>1. /\ stored = NewRun /\ stored' = run /\ UNCHANGED <<deployed, passed, rolledBack>>
      /\ \A e \in Calls : at[e] \in {"idle", "done"}
      /\ copy \in [Calls -> Runs]
      /\ at \in [Calls -> {"idle", "writing", "deciding", "rereading", "advance",
                           "verify", "rollback", "reverify", "done"}]
      /\ deployed \subseteq Steps /\ passed \subseteq Steps /\ rolledBack \subseteq Steps
      /\ Authorised
  BY Zenon DEF Start, EngineIInv, EngineTypes, external
<1>2. /\ NewRun \in Runs /\ run \in Runs /\ run.version = 1
      /\ run.steps = NewRun.steps /\ run.approval = NewRun.approval
      /\ \A i \in Steps : run.steps[i] = "PENDING" /\ run.approval[i] = "NONE"
  BY Zenon DEF NewRun, Runs, RunStatuses, StepStatuses,
     ApprovalStatuses
<1>3. Local(c, run, "advance") \/ Local(c, NewRun, "done")
  BY <1>1, Zenon DEF Start
<1> HIDE DEF run
<1>4. EngineTypes'
  BY <1>1, <1>2, <1>3 DEF EngineTypes, Local
<1>5. Truthful(run, deployed, passed) /\ Keeps(run, run) /\ Given(run, run) /\ Keeps(run, NewRun)
  BY <1>2, Zenon DEF Truthful, Keeps, Given, Begun
<1>6. ASSUME NEW e \in Calls, at'[e] \in Holding
      PROVE  Knows(copy'[e], at'[e], stored', deployed', passed')
  <2>1. copy'[e] = run /\ at'[e] = "advance"
    BY <1>1, <1>3, <1>6, Zenon DEF Local, Holding
  <2> QED
    BY <1>1, <1>2, <1>5, <2>1 DEF Knows, Acting
<1>7. Authorised'
  BY <1>1, <1>2, Zenon DEF Authorised
<1> QED
  BY <1>1, <1>2, <1>4, <1>5, <1>6, <1>7 DEF EngineIInv, CopyInv

\* Every step keeps the invariant, and the store's decisions and successes.
LEMMA NextEngine ==
    ASSUME EngineIInv, [EngineNext]_engineVars
    PROVE  EngineIInv' /\ Keeps(stored', stored)
PROOF
<1> Keeps(stored, stored)
  BY StoredSelf, Zenon
<1>1. ASSUME NEW c \in Calls, Writes(c) \/ ApprovalWrites(c)
      PROVE  EngineIInv' /\ Keeps(stored', stored)
  BY <1>1, WriteStep, Zenon DEF Writes, ApprovalWrites, external
<1>2. ASSUME NEW c \in Calls, GivesUp(c) \/ ApprovalRereads(c) \/ NoneLeft(c)
      PROVE  EngineIInv' /\ Keeps(stored', stored)
  <2>1. stored' = stored
    BY <1>2, Zenon DEF GivesUp, ApprovalRereads, NoneLeft
  <2> QED
    BY <1>2, <2>1, QuietStep, Zenon
<1>3. ASSUME NEW c \in Calls, Start(c) PROVE EngineIInv' /\ Keeps(stored', stored)
  BY <1>3, StartStep, Zenon
<1>4. ASSUME NEW c \in Calls, Cancel(c) \/ Pause(c) \/ ResumeWaiting(c) \/ ResumeRunning(c)
      PROVE  EngineIInv' /\ Keeps(stored', stored)
  <2>1. stored' = stored
    BY <1>4, Zenon DEF Cancel, Pause, ResumeWaiting, ResumeRunning,
       Begin
  <2> QED
    BY <1>4, <2>1, ControlStep, Zenon
<1>5. ASSUME NEW c \in Calls, NEW i \in Steps, Approve(c, i) \/ Deny(c, i) \/ DecideTooLate(c, i)
      PROVE  EngineIInv' /\ Keeps(stored', stored)
  <2>1. stored' = stored
    BY <1>5, Zenon DEF Approve, Deny, DecideTooLate, Begin
  <2> QED
    BY <1>5, <2>1, DecideStep, Zenon
<1>6. ASSUME NEW c \in Calls, NEW i \in Steps,
             Blocks(c, i) \/ AsksApproval(c, i) \/ Deploys(c, i) \/ DeployFails(c, i)
      PROVE  EngineIInv' /\ Keeps(stored', stored)
  <2>1. stored' = stored
    BY <1>6, Zenon DEF Blocks, AsksApproval, Deploys, DeployFails
  <2> QED
    BY <1>6, <2>1, StopSteps, AskStep, DeployStep, Zenon
<1>7. ASSUME NEW c \in Calls,
             \/ VerifyPasses(c) \/ VerifyFails(c) \/ VerifyDoesNotPass(c)
             \/ Rollbacks(c) \/ RollbackFails(c) \/ RollbackVerified(c)
      PROVE  EngineIInv' /\ Keeps(stored', stored)
  <2>1. stored' = stored
    BY <1>7, Zenon DEF VerifyPasses, VerifyFails, VerifyDoesNotPass,
       Rollbacks, RollbackFails, RollbackVerified
  <2> QED
    BY <1>7, <2>1, StopSteps, VerifyStep, Zenon
<1>8. ASSUME UNCHANGED <<stored, copy, at, external>> PROVE EngineIInv' /\ Keeps(stored', stored)
  BY <1>8, Zenon DEF EngineIInv, EngineTypes, CopyInv, Authorised, external
<1>9. ASSUME NEW i \in Steps, TimePasses(i) PROVE EngineIInv' /\ Keeps(stored', stored)
  BY <1>8, <1>9, Zenon DEF TimePasses
<1>10. CASE UNCHANGED engineVars
  BY <1>8, <1>10, Zenon DEF engineVars
<1> QED
  BY <1>1, <1>2, <1>3, <1>4, <1>5, <1>6, <1>7, <1>9, <1>10, Zenon DEF EngineNext

\* Nothing is stored or called at the beginning.
LEMMA InitEngine == EngineInit => EngineIInv
BY DEF EngineInit, EngineIInv, EngineTypes, CopyInv, Holding, Authorised, Truthful,
   Begun, NewRun, Runs,
       RunStatuses, StepStatuses, ApprovalStatuses

-----------------------------------------------------------------------------
(* Theorems *)

\* Whatever calls interleave, a step is deployed only if the policy allows it, or
\* requires an approval that the store shows as given (Engine.advance).
THEOREM EngineAuthorised == EngineSpec => []Authorised
PROOF
<1>1. EngineIInv /\ [EngineNext]_engineVars => EngineIInv'
  BY NextEngine, Zenon
<1>2. EngineIInv => Authorised
  BY Zenon DEF EngineIInv
<1> QED
  BY InitEngine, <1>1, <1>2, PTL DEF EngineSpec

\* A step the store shows as succeeded was deployed and verified.
THEOREM SuccessVerified == EngineSpec => []SucceededIsVerified
PROOF
<1>1. EngineIInv /\ [EngineNext]_engineVars => EngineIInv'
  BY NextEngine, Zenon
<1>2. EngineIInv => SucceededIsVerified
  BY Zenon DEF EngineIInv, Truthful, Begun, SucceededIsVerified
<1> QED
  BY InitEngine, <1>1, <1>2, PTL DEF EngineSpec

\* No call, however old the run it read, undoes a decision or a success: the version
\* UpdateRun compares guarantees it.
THEOREM DecisionsKept == EngineSpec => DecisionsStay
PROOF
<1> DEFINE Stays ==
      \A i \in Steps :
          /\ stored.approval[i] \in {"APPROVED", "DENIED", "EXPIRED"}
                => stored'.approval[i] = stored.approval[i]
          /\ stored.steps[i] = "SUCCEEDED" => stored'.steps[i] = "SUCCEEDED"
<1>1. EngineIInv /\ [EngineNext]_engineVars => EngineIInv'
  BY NextEngine, Zenon
<1>2. EngineIInv /\ [EngineNext]_engineVars => [Stays]_engineVars
  BY NextEngine, Zenon DEF Keeps, Decided
<1> QED
  BY InitEngine, <1>1, <1>2, PTL DEF EngineSpec, DecisionsStay
=============================================================================
