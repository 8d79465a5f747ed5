---------------------------- MODULE LegacyEngine ----------------------------
(***************************************************************************)
(* The synchronous Engine of internal/engine, kept as a compatibility      *)
(* path.  Each API call reads the run, works on its own copy and writes it *)
(* back under the version it read; calls of several clients interleave     *)
(* between the read, each call of the executor, and the write.             *)
(*                                                                         *)
(* The policy decision of a step is a function of the run, so it is a      *)
(* constant.  The executor deploys a step under one idempotency key.       *)
(***************************************************************************)
EXTENDS Naturals

CONSTANTS
    N,             \* steps of the plan
    Deps,          \* the selected dependencies of each step
    Decision,      \* the policy decision of each step
    AutoRollback,  \* the steps whose rollback mode is automatic
    MaxCalls       \* API calls considered

Steps == 1 .. N
Calls == 1 .. MaxCalls

ASSUME EngineAssumption ==
    /\ N \in Nat \ {0} /\ MaxCalls \in Nat
    /\ Deps \in [Steps -> SUBSET Steps]
    /\ \A i \in Steps : Deps[i] \subseteq 1 .. i - 1
    /\ Decision \in [Steps -> {"ALLOW", "DENY", "REQUIRE_APPROVAL"}]
    /\ AutoRollback \subseteq Steps

VARIABLES
    stored,      \* the run in the store
    copy,        \* the run each call works on
    at,          \* where each call is
    deployed,    \* steps the executor deployed
    passed,      \* steps whose deployment a call saw pass verification
    rolledBack,  \* steps the executor rolled back
    expired      \* approvals more than 24 hours old

external == <<deployed, passed, rolledBack>>
engineVars == <<stored, copy, at, external, expired>>

RunStatuses == {"PENDING", "RUNNING", "WAITING_APPROVAL", "PAUSED", "SUCCEEDED",
                "FAILED", "BLOCKED", "ESCALATED", "CANCELLED"}
StepStatuses == {"PENDING", "WAITING_APPROVAL", "VERIFYING", "ROLLING_BACK", "SUCCEEDED",
                 "ROLLED_BACK", "BLOCKED", "ESCALATED", "CANCELLED"}
ApprovalStatuses == {"NONE", "PENDING", "APPROVED", "DENIED", "EXPIRED"}

Runs == [status : RunStatuses,
         pausedFrom : {"NONE", "RUNNING", "WAITING_APPROVAL"},
         steps : [Steps -> StepStatuses],
         approval : [Steps -> ApprovalStatuses],
         version : Nat]

NewRun == [status |-> "PENDING", pausedFrom |-> "NONE",
           steps |-> [i \in Steps |-> "PENDING"],
           approval |-> [i \in Steps |-> "NONE"],
           version |-> 0]

\* The store never holds a step in the middle of its execution.
EngineTypeOK ==
    /\ stored \in Runs
    /\ \A i \in Steps : stored.steps[i] \notin {"VERIFYING", "ROLLING_BACK"}
    /\ copy \in [Calls -> Runs]
    /\ at \in [Calls -> {"idle", "writing", "deciding", "rereading", "advance",
                         "verify", "rollback", "reverify", "done"}]
    /\ deployed \subseteq Steps /\ passed \subseteq Steps /\ rolledBack \subseteq Steps
    /\ expired \subseteq Steps

EngineInit ==
    /\ stored = NewRun
    /\ copy = [c \in Calls |-> NewRun]
    /\ at = [c \in Calls |-> "idle"]
    /\ deployed = {} /\ passed = {} /\ rolledBack = {}
    /\ expired = {}

-----------------------------------------------------------------------------
(* Reading and writing the run *)

Local(c, run, next) ==
    /\ copy' = [copy EXCEPT ![c] = run]
    /\ at' = [at EXCEPT ![c] = next]

\* A new call finds the run and goes on with what it makes of it.
Begin(c, run, next) ==
    /\ at[c] = "idle"
    /\ \A e \in 1 .. c - 1 : at[e] # "idle"
    /\ stored.version > 0
    /\ Local(c, run, next)
    /\ UNCHANGED <<stored, external, expired>>

\* Mutation: the version is not compared.
UpdateRunBlindly(c) == stored' = [copy[c] EXCEPT !.version = stored.version + 1]

UpdateRun(c) ==
    /\ copy[c].version = stored.version
    /\ stored' = [copy[c] EXCEPT !.version = @ + 1]

Writes(c) ==
    /\ at[c] = "writing"
    /\ UpdateRun(c)
    /\ Local(c, NewRun, "done")
    /\ UNCHANGED <<external, expired>>

\* The version has changed, or the audit or the store is unavailable.
GivesUp(c) ==
    /\ at[c] \in {"writing", "deciding", "rereading"}
    /\ Local(c, NewRun, "done")
    /\ UNCHANGED <<stored, external, expired>>

-----------------------------------------------------------------------------
(* The API *)

\* startPlanned: the run is created; without its audit event it is left there.
Start(c) ==
    /\ at[c] = "idle"
    /\ \A e \in 1 .. c - 1 : at[e] # "idle"
    /\ stored.version = 0
    /\ stored' = [NewRun EXCEPT !.version = 1]
    /\ Local(c, stored', "advance") \/ Local(c, NewRun, "done")
    /\ UNCHANGED <<external, expired>>

Approve(c, i) ==
    /\ stored.approval[i] = "PENDING"
    /\ i \notin expired
    /\ Begin(c, [stored EXCEPT !.approval[i] = "APPROVED", !.steps[i] = "PENDING",
                               !.status = "RUNNING"], "deciding")

Deny(c, i) ==
    /\ stored.approval[i] = "PENDING"
    /\ i \notin expired
    /\ Begin(c, [stored EXCEPT !.approval[i] = "DENIED", !.steps[i] = "BLOCKED",
                               !.status = "BLOCKED"], "writing")

DecideTooLate(c, i) ==
    /\ stored.approval[i] = "PENDING"
    /\ i \in expired
    /\ Begin(c, [stored EXCEPT !.approval[i] = "EXPIRED", !.steps[i] = "BLOCKED",
                               !.status = "BLOCKED"], "writing")

\* Mutation: the run is advanced first and the approval stored with the outcome.
ApprovalAdvances(c) ==
    /\ at[c] = "deciding"
    /\ Local(c, copy[c], "advance")
    /\ UNCHANGED <<stored, external, expired>>

\* An approval is stored first; then the run is read again and advanced.
ApprovalWrites(c) ==
    /\ at[c] = "deciding"
    /\ UpdateRun(c)
    /\ Local(c, NewRun, "rereading")
    /\ UNCHANGED <<external, expired>>

ApprovalRereads(c) ==
    /\ at[c] = "rereading"
    /\ Local(c, stored, "advance")
    /\ UNCHANGED <<stored, external, expired>>

Cancel(c) ==
    /\ stored.status \notin {"SUCCEEDED", "CANCELLED"}
    /\ Begin(c, [stored EXCEPT !.status = "CANCELLED",
                    !.steps = [i \in Steps |->
                        IF stored.steps[i] \in {"PENDING", "WAITING_APPROVAL"}
                        THEN "CANCELLED" ELSE stored.steps[i]]], "writing")

Pause(c) ==
    /\ stored.status \in {"RUNNING", "WAITING_APPROVAL"}
    /\ Begin(c, [stored EXCEPT !.status = "PAUSED", !.pausedFrom = stored.status], "writing")

ResumeWaiting(c) ==
    /\ stored.status = "PAUSED"
    /\ stored.pausedFrom = "WAITING_APPROVAL"
    /\ Begin(c, [stored EXCEPT !.status = "WAITING_APPROVAL", !.pausedFrom = "NONE"], "writing")

ResumeRunning(c) ==
    /\ stored.status = "PAUSED"
    /\ stored.pausedFrom = "RUNNING"
    /\ Begin(c, [stored EXCEPT !.status = "RUNNING", !.pausedFrom = "NONE"], "advance")

-----------------------------------------------------------------------------
(* advance *)

PendingSteps(c) == {i \in Steps : copy[c].steps[i] = "PENDING"}
Succeeded(c) == {i \in Steps : copy[c].steps[i] = "SUCCEEDED"}
Current(c) == CHOOSE i \in Steps : copy[c].steps[i] \in {"VERIFYING", "ROLLING_BACK"}

\* Step i ends the run: what follows it is cancelled.
Stopped(run, i, stepStatus, runStatus) ==
    [run EXCEPT !.status = runStatus,
                !.steps = [j \in Steps |->
                    IF j = i THEN stepStatus
                    ELSE IF j > i /\ run.steps[j] = "PENDING" THEN "CANCELLED"
                    ELSE run.steps[j]]]

Stop(c, i, stepStatus, runStatus) ==
    Local(c, Stopped(copy[c], i, stepStatus, runStatus), "writing")

\* No step is pending: the loop ends and the run has succeeded.
NoneLeft(c) ==
    /\ at[c] = "advance"
    /\ PendingSteps(c) = {}
    /\ Local(c, [copy[c] EXCEPT !.status = "SUCCEEDED"], "writing")
    /\ UNCHANGED <<stored, external, expired>>

\* The loop has come to step i, the first that is pending.
AtStep(c, i) ==
    /\ at[c] = "advance"
    /\ i \in PendingSteps(c) /\ \A j \in PendingSteps(c) : i <= j

Ready(c, i) == AtStep(c, i) /\ Deps[i] \subseteq Succeeded(c)

Cleared(c, i) ==
    \/ Decision[i] = "ALLOW"
    \/ Decision[i] = "REQUIRE_APPROVAL" /\ copy[c].approval[i] = "APPROVED"

\* A dependency has not succeeded, the policy denies the step, or an audit event
\* cannot be written.
Blocks(c, i) ==
    /\ AtStep(c, i)
    /\ Stop(c, i, "BLOCKED", "BLOCKED")
    /\ UNCHANGED <<stored, external, expired>>

\* The call requests the approval and, unless the audit fails, waits for it: a
\* request that could not be audited stays pending on a blocked step.
AsksApproval(c, i) ==
    /\ Ready(c, i)
    /\ Decision[i] = "REQUIRE_APPROVAL" /\ copy[c].approval[i] # "APPROVED"
    /\ LET asked == [copy[c] EXCEPT !.approval[i] = IF @ = "NONE" THEN "PENDING" ELSE @]
       IN \/ Local(c, [asked EXCEPT !.steps[i] = "WAITING_APPROVAL",
                                    !.status = "WAITING_APPROVAL"], "writing")
          \/ Local(c, Stopped(asked, i, "BLOCKED", "BLOCKED"), "writing")
    /\ UNCHANGED <<stored, external, expired>>

Deploys(c, i) ==
    /\ Ready(c, i)
    /\ Cleared(c, i)
    /\ deployed' = deployed \cup {i}
    /\ Local(c, [copy[c] EXCEPT !.steps[i] = "VERIFYING"], "verify")
    /\ UNCHANGED <<stored, passed, rolledBack, expired>>

\* The executor reports an error; it may have deployed all the same.
DeployFails(c, i) ==
    /\ Ready(c, i)
    /\ Cleared(c, i)
    /\ deployed' \in {deployed, deployed \cup {i}}
    /\ Stop(c, i, "BLOCKED", "BLOCKED")
    /\ UNCHANGED <<stored, passed, rolledBack, expired>>

VerifyPasses(c) ==
    /\ at[c] = "verify"
    /\ passed' = passed \cup {Current(c)}
    /\ Local(c, [copy[c] EXCEPT !.steps[Current(c)] = "SUCCEEDED"], "advance")
    /\ UNCHANGED <<stored, deployed, rolledBack, expired>>

VerifyFails(c) ==
    /\ at[c] = "verify"
    /\ Stop(c, Current(c), "BLOCKED", "BLOCKED")
    /\ UNCHANGED <<stored, external, expired>>

\* Mutation: an inconclusive verification counts as a success.
VerifyInconclusive(c) ==
    /\ at[c] = "verify"
    /\ Local(c, [copy[c] EXCEPT !.steps[Current(c)] = "SUCCEEDED"], "advance")
    /\ UNCHANGED <<stored, external, expired>>

VerifyDoesNotPass(c) ==
    /\ at[c] = "verify"
    /\ IF Current(c) \in AutoRollback
       THEN Local(c, [copy[c] EXCEPT !.steps[Current(c)] = "ROLLING_BACK"], "rollback")
       ELSE Stop(c, Current(c), "ESCALATED", "ESCALATED")
    /\ UNCHANGED <<stored, external, expired>>

Rollbacks(c) ==
    /\ at[c] = "rollback"
    /\ rolledBack' = rolledBack \cup {Current(c)}
    /\ Local(c, copy[c], "reverify")
    /\ UNCHANGED <<stored, deployed, passed, expired>>

RollbackFails(c) ==
    /\ at[c] = "rollback"
    /\ rolledBack' \in {rolledBack, rolledBack \cup {Current(c)}}
    /\ Stop(c, Current(c), "ESCALATED", "ESCALATED")
    /\ UNCHANGED <<stored, deployed, passed, expired>>

RollbackVerified(c) ==
    /\ at[c] = "reverify"
    /\ \/ Stop(c, Current(c), "ROLLED_BACK", "FAILED")
       \/ Stop(c, Current(c), "ESCALATED", "ESCALATED")
    /\ UNCHANGED <<stored, external, expired>>

-----------------------------------------------------------------------------
TimePasses(i) ==
    /\ stored.approval[i] = "PENDING"
    /\ i \notin expired
    /\ expired' = expired \cup {i}
    /\ UNCHANGED <<stored, copy, at, external>>

EngineNext ==
    \/ \E c \in Calls :
          \/ Writes(c) \/ GivesUp(c) \/ Start(c) \/ ApprovalWrites(c) \/ ApprovalRereads(c)
          \/ Cancel(c) \/ Pause(c) \/ ResumeWaiting(c) \/ ResumeRunning(c)
          \/ NoneLeft(c) \/ VerifyPasses(c) \/ VerifyFails(c) \/ VerifyDoesNotPass(c)
          \/ Rollbacks(c) \/ RollbackFails(c) \/ RollbackVerified(c)
          \/ \E i \in Steps : \/ Approve(c, i) \/ Deny(c, i) \/ DecideTooLate(c, i)
                              \/ Blocks(c, i) \/ AsksApproval(c, i)
                              \/ Deploys(c, i) \/ DeployFails(c, i)
    \/ \E i \in Steps : TimePasses(i)

EngineSpec == EngineInit /\ [][EngineNext]_engineVars

-----------------------------------------------------------------------------
(* Properties *)

\* Whatever calls interleave, the executor deploys a step only if the policy
\* allows it, or requires an approval that the store shows as given.
Authorised ==
    \A i \in deployed :
        Decision[i] = "ALLOW" \/ (Decision[i] = "REQUIRE_APPROVAL"
                                    /\ stored.approval[i] = "APPROVED")

\* A step the store shows as succeeded was deployed and verified.
SucceededIsVerified ==
    \A i \in Steps : stored.steps[i] = "SUCCEEDED" => i \in deployed \cap passed

\* No call, however old the run it read, undoes a decision of an approver or a step
\* that has succeeded.
DecisionsStay ==
    [][\A i \in Steps :
          /\ stored.approval[i] \in {"APPROVED", "DENIED", "EXPIRED"}
                => stored'.approval[i] = stored.approval[i]
          /\ stored.steps[i] = "SUCCEEDED" => stored'.steps[i] = "SUCCEEDED"]_engineVars

\* "an older event cannot move state backward or reopen a completed step"
\* (docs/security/threat-model.md): a cancelled run stays cancelled.
\* The code does not guarantee it: DecideApproval looks only at the approval.
CancelledStays == [][stored.status = "CANCELLED" => stored'.status = "CANCELLED"]_engineVars

\* "Missing or inconclusive evidence is never converted to success"
\* (docs/implementation-plan.md): every step of a succeeded run was verified.
SuccessIsComplete ==
    stored.status = "SUCCEEDED" => \A i \in Steps : i \in deployed \cap passed
=============================================================================
