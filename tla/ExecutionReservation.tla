------------------------ MODULE ExecutionReservation ------------------------
(***************************************************************************)
(* The Deploy and Rollback activities of internal/workflow/activities.go   *)
(* over the executions table (ReserveExecution and CompleteExecution of    *)
(* internal/store).                                                        *)
(*                                                                         *)
(* Temporal runs an activity as a series of attempts.  An attempt that     *)
(* returns a retryable error, or is not heard of within StartToCloseTimeout*)
(* is followed by another one; the attempt that timed out may still be     *)
(* running somewhere, and goes on against the same row.  A worker may die  *)
(* at any point of an attempt.  The store may fail before a commit or lose *)
(* the answer to a commit that took place.                                 *)
(***************************************************************************)
EXTENDS Naturals

CONSTANTS
    Ops,          \* (adapter, idempotency key) pairs
    MaxAttempts   \* RetryPolicy.MaximumAttempts

ASSUME AttemptsAssumption == MaxAttempts \in Nat \ {0}

VARIABLES
    record,     \* the executions row of each operation
    pc,         \* where each attempt of each operation is
    current,    \* Temporal's current attempt of the activity, 0 before the first
    result,     \* what Temporal answered the workflow
    calls,      \* calls of Executor.Deploy or Executor.Rollback made so far
    confirmed   \* whether one of those calls returned success

vars == <<record, pc, current, result, calls, confirmed>>

task == <<current, result>>

Attempts == 1 .. MaxAttempts

Statuses == {"NONE", "RESERVED", "SUCCEEDED", "UNKNOWN"}

\* The attempt created the row and alone may call the executor and complete it.
Owning == {"calling", "called", "refused"}

\* The attempt has its result and has not yet reported it.
Returning == {"retOk", "retRetryable", "retUnknown"}

PCs == {"idle", "reserving", "gone"} \cup Owning \cup Returning

TypeOK ==
    /\ record \in [Ops -> [status : Statuses, version : 0 .. 2]]
    /\ pc \in [Ops -> [Attempts -> PCs]]
    /\ current \in [Ops -> 0 .. MaxAttempts]
    /\ result \in [Ops -> {"none", "ok", "error"}]
    /\ calls \in [Ops -> Nat]
    /\ confirmed \in [Ops -> BOOLEAN]

Init ==
    /\ record = [o \in Ops |-> [status |-> "NONE", version |-> 0]]
    /\ pc = [o \in Ops |-> [n \in Attempts |-> "idle"]]
    /\ current = [o \in Ops |-> 0]
    /\ result = [o \in Ops |-> "none"]
    /\ calls = [o \in Ops |-> 0]
    /\ confirmed = [o \in Ops |-> FALSE]

-----------------------------------------------------------------------------
Goto(o, n, next) == pc' = [pc EXCEPT ![o][n] = next]

\* The workflow asks for the activity: Temporal starts the first attempt.
ExecuteActivity(o) ==
    /\ current[o] = 0
    /\ current' = [current EXCEPT ![o] = 1]
    /\ Goto(o, 1, "reserving")
    /\ UNCHANGED <<record, result, calls, confirmed>>

\* ReserveExecution inserts the row; the commit's answer may get lost, in which
\* case the attempt ends with the store's error.
ReserveCreates(o, n) ==
    /\ pc[o][n] = "reserving"
    /\ record[o].status = "NONE"
    /\ record' = [record EXCEPT ![o] = [status |-> "RESERVED", version |-> 1]]
    /\ \/ Goto(o, n, "calling")
       \/ Goto(o, n, "retRetryable")
    /\ UNCHANGED <<task, calls, confirmed>>

\* Mutation: a reservation without a result is taken over and called again.
ReserveTakesOver(o, n) ==
    /\ pc[o][n] = "reserving"
    /\ record[o].status # "NONE"
    /\ Goto(o, n, CASE record[o].status = "SUCCEEDED" -> "retOk"
                    [] record[o].status = "RESERVED" -> "calling"
                    [] OTHER -> "retUnknown")
    /\ UNCHANGED <<record, task, calls, confirmed>>

\* Mutation: finding the row counts as success.
ReserveFindsAnyIsOk(o, n) ==
    /\ pc[o][n] = "reserving"
    /\ record[o].status # "NONE"
    /\ Goto(o, n, "retOk")
    /\ UNCHANGED <<record, task, calls, confirmed>>

\* Mutation: an attempt that finds the row marks it unknown, without a version.
ReserveMarksUnknown(o, n) ==
    /\ pc[o][n] = "reserving"
    /\ record[o].status # "NONE"
    /\ record' = [record EXCEPT ![o].status = "UNKNOWN"]
    /\ Goto(o, n, "retUnknown")
    /\ UNCHANGED <<task, calls, confirmed>>

\* The row exists: a success is returned again, anything else is unknown.
ReserveFinds(o, n) ==
    /\ pc[o][n] = "reserving"
    /\ record[o].status # "NONE"
    /\ Goto(o, n, IF record[o].status = "SUCCEEDED" THEN "retOk" ELSE "retUnknown")
    /\ UNCHANGED <<record, task, calls, confirmed>>

\* The store fails before anything is committed: a retryable error.
ReserveFails(o, n) ==
    /\ pc[o][n] = "reserving"
    /\ Goto(o, n, "retRetryable")
    /\ UNCHANGED <<record, task, calls, confirmed>>

\* The external call.  An error leaves open whether the write took place.
CallExecutor(o, n) ==
    /\ pc[o][n] = "calling"
    /\ calls' = [calls EXCEPT ![o] = @ + 1]
    /\ \/ /\ Goto(o, n, "called")
          /\ confirmed' = [confirmed EXCEPT ![o] = TRUE]
       \/ /\ Goto(o, n, "refused")
          /\ UNCHANGED confirmed
    /\ UNCHANGED <<record, task>>

\* The update of CompleteExecution: only the version read at reservation (1).
CompleteExecution(o, status) ==
    /\ record[o].version = 1
    /\ record' = [record EXCEPT ![o] = [status |-> status, version |-> 2]]

\* Success is recorded; a lost answer turns the committed success into unknown.
CompleteSucceeded(o, n) ==
    /\ pc[o][n] = "called"
    /\ CompleteExecution(o, "SUCCEEDED")
    /\ \/ Goto(o, n, "retOk")
       \/ Goto(o, n, "retUnknown")
    /\ UNCHANGED <<task, calls, confirmed>>

\* The executor's error is recorded as UNKNOWN, and reported as unknown.
CompleteUnknown(o, n) ==
    /\ pc[o][n] = "refused"
    /\ CompleteExecution(o, "UNKNOWN")
    /\ Goto(o, n, "retUnknown")
    /\ UNCHANGED <<task, calls, confirmed>>

\* The store refuses the update.  Either way the activity reports unknown.
CompleteFails(o, n) ==
    /\ pc[o][n] \in {"called", "refused"}
    /\ Goto(o, n, "retUnknown")
    /\ UNCHANGED <<record, task, calls, confirmed>>

-----------------------------------------------------------------------------
\* Temporal after attempt n failed: another attempt, or the activity fails.
RetryOrFail(o, n, afterwards) ==
    IF n < MaxAttempts
    THEN /\ current' = [current EXCEPT ![o] = n + 1]
         /\ pc' = [pc EXCEPT ![o] = [afterwards EXCEPT ![n + 1] = "reserving"]]
         /\ UNCHANGED result
    ELSE /\ result' = [result EXCEPT ![o] = "error"]
         /\ pc' = [pc EXCEPT ![o] = afterwards]
         /\ UNCHANGED current

\* An attempt reports.  Temporal drops what an attempt it gave up on reports.
Report(o, n) ==
    LET reported == [pc[o] EXCEPT ![n] = "gone"]
        awaited == current[o] = n /\ result[o] = "none"
    IN
    /\ pc[o][n] \in Returning
    /\ IF awaited /\ pc[o][n] = "retRetryable"
       THEN RetryOrFail(o, n, reported)
       ELSE /\ pc' = [pc EXCEPT ![o] = reported]
            /\ result' = IF ~awaited THEN result
                         ELSE [result EXCEPT ![o] =
                                 IF pc[o][n] = "retOk" THEN "ok" ELSE "error"]
            /\ UNCHANGED current
    /\ UNCHANGED <<record, calls, confirmed>>

\* Mutation: no timeout for an attempt whose worker died.
TimeOutOfLiving(o) ==
    /\ current[o] > 0
    /\ result[o] = "none"
    /\ pc[o][current[o]] # "gone"
    /\ RetryOrFail(o, current[o], pc[o])
    /\ UNCHANGED <<record, calls, confirmed>>

\* StartToCloseTimeout passes without a report of the current attempt.
TimeOut(o) ==
    /\ current[o] > 0
    /\ result[o] = "none"
    /\ RetryOrFail(o, current[o], pc[o])
    /\ UNCHANGED <<record, calls, confirmed>>

\* The worker running attempt n dies; the row stays as it is.
WorkerCrash(o, n) ==
    /\ pc[o][n] \in {"reserving"} \cup Owning \cup Returning
    /\ Goto(o, n, "gone")
    /\ UNCHANGED <<record, task, calls, confirmed>>

AttemptStep(o, n) ==
    \/ ReserveCreates(o, n)
    \/ ReserveFinds(o, n)
    \/ ReserveFails(o, n)
    \/ CallExecutor(o, n)
    \/ CompleteSucceeded(o, n)
    \/ CompleteUnknown(o, n)
    \/ CompleteFails(o, n)
    \/ Report(o, n)

Next ==
    \E o \in Ops :
        \/ ExecuteActivity(o)
        \/ TimeOut(o)
        \/ \E n \in Attempts : AttemptStep(o, n) \/ WorkerCrash(o, n)

Spec == Init /\ [][Next]_vars

\* Temporal fires the timeout of an attempt it does not hear of.  Nothing is
\* assumed of the workers.
FairSpec == Spec /\ \A o \in Ops : WF_vars(TimeOut(o))

-----------------------------------------------------------------------------
(* Properties *)

\* However attempts are retried, time out, crash or overlap, the executor is
\* called at most once for an idempotency key (Deploy, Rollback).
AtMostOneCall == \A o \in Ops : calls[o] <= 1

\* The reservation is durable before the call: whenever the outside may have
\* been written to, the executions row is there for reconciliation to find.
CallIsReserved == \A o \in Ops : calls[o] > 0 => record[o].status # "NONE"

\* The activity answers success to the workflow only for a call that returned
\* success and is recorded as such, whichever attempt made the call.
SuccessIsRecorded ==
    \A o \in Ops : result[o] = "ok" =>
        record[o].status = "SUCCEEDED" /\ confirmed[o]

\* A completed row never changes again, late attempts included.
CompletedIsFinal ==
    [][\A o \in Ops :
         record[o].status \in {"SUCCEEDED", "UNKNOWN"} => record'[o] = record[o]]_vars

\* A started activity is decided, even if every worker dies or hangs.
EventuallyDecided ==
    \A o \in Ops : current[o] > 0 ~> result[o] # "none"

-----------------------------------------------------------------------------
(* The journal promise this implements. *)

stageOf ==
    [o \in Ops |-> IF record[o].status = "NONE" THEN "free"
                   ELSE IF calls[o] = 0 THEN "claimed" ELSE "written"]

journalOf ==
    [o \in Ops |-> IF record[o].status = "SUCCEEDED" THEN "confirmed"
                   ELSE IF record[o].status = "UNKNOWN" THEN "doubtful" ELSE "open"]

Journal == INSTANCE AtMostOnceWrite WITH stage <- stageOf, journal <- journalOf

\* The activities implement the at-most-once journal.
ImplementsJournal == Journal!Spec
=============================================================================
