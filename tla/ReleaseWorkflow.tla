--------------------------- MODULE ReleaseWorkflow ---------------------------
(***************************************************************************)
(* One run of ReleaseWorkflow (internal/workflow/release.go) together with *)
(* the row its PersistRun activity keeps in the store and the requests the *)
(* application (internal/application/approvals.go) turns into signals.     *)
(*                                                                         *)
(* The workflow is deterministic code between waits, so an action goes     *)
(* from the end of one wait to the start of the next.  Waits are activity  *)
(* calls, the approval selector and the pause selector.  The steps of the  *)
(* run are numbered in plan order.                                         *)
(*                                                                         *)
(* PersistRun is asynchronous: an attempt may commit and its answer be     *)
(* lost, and an attempt the workflow gave up on may still commit.  Deploy  *)
(* and Rollback obey what ExecutionReservation establishes: at most one    *)
(* external write, success answered only after the write, and a write that *)
(* may come after the activity was given up on.                            *)
(***************************************************************************)
EXTENDS Naturals, Sequences

CONSTANTS
    N,            \* number of steps of the run
    Deps,         \* Deps[i]: the selected rollout-order dependencies of step i
    Verified,     \* steps with VerificationRequired
    AutoRollback, \* steps with RollbackMode automatic
    MaxSignals    \* signals the operators send in all

Steps == 1 .. N

\* The planner puts a dependency into an earlier phase (PlanIntent).
ASSUME PlanAssumption ==
    /\ N \in Nat
    /\ Deps \in [Steps -> SUBSET Steps]
    /\ \A i \in Steps : \A d \in Deps[i] : d < i
    /\ Verified \subseteq Steps
    /\ AutoRollback \subseteq Steps
    /\ MaxSignals \in Nat

VARIABLES
    status,    \* run.Status
    pausedFrom,\* run.PausedFrom, "none" when it is empty
    steps,     \* run.Steps[i].Status
    policy,    \* run.Steps[i].Policy.Decision, "none" before the evaluation
    approval,  \* run.Steps[i].Approval.Status, "none" when not requested
    index,     \* the loop variable; N + 1 after the loop
    pc,        \* the wait or the point the workflow is at
    cont,      \* where it goes on once the pending persist is answered
    verdict,   \* the status the step gets once its reservation is returned
    version,   \* run.StateVersion as the workflow knows it
    stored,    \* the run in the store
    storedVersion,
    deploy,    \* Deploy of each step: "no", "begun", "written"
    rollback,  \* Rollback of each step, likewise
    reserved,  \* steps whose scheduling reservation was not given back
    approvals, \* the approval channel
    controls,  \* number of signals buffered in the three control channels
    budget,    \* signals that may still be sent
    expired,   \* the pending approval's ExpiresAt has passed
    accepted,  \* the first decision of each approval that the application accepted
    cancelAt   \* index when the first cancel arrived, 0 before

run == <<status, pausedFrom, steps, policy, approval>>
store == <<version, stored, storedVersion>>
external == <<deploy, rollback>>
inbox == <<approvals, controls>>
requests == <<budget, accepted, cancelAt>>
vars == <<run, index, pc, cont, verdict, store, external, reserved, inbox,
          requests, expired>>

RunStatuses == {"PENDING", "RUNNING", "WAITING_APPROVAL", "PAUSED", "BLOCKED",
                "FAILED", "ESCALATED", "CANCELLED", "SUCCEEDED"}
FinalSteps == {"SUCCEEDED", "BLOCKED", "UNKNOWN", "ESCALATED", "ROLLED_BACK",
               "CANCELLED"}
StepStatuses == FinalSteps \cup
    {"PENDING", "WAITING_APPROVAL", "EXECUTING", "VERIFYING", "ROLLING_BACK"}
Decisions == {"ALLOW", "DENY", "REQUIRE_APPROVAL"}
ApprovalStatuses == {"none", "PENDING", "APPROVED", "DENIED", "EXPIRED", "REVOKED"}
Requests == [action : {"approve", "deny", "revoke"}, step : Steps]
Waits == {"start", "top", "step", "evaluating", "decided", "waiting", "paused",
          "acquiring", "deploy", "deploying", "verifying", "rollback",
          "rollingBack", "verifyingRollback", "releasing", "returned", "failed"}

Snapshot == [status |-> status, steps |-> steps, policy |-> policy, approval |-> approval]

TypeOK ==
    /\ status \in RunStatuses
    /\ pausedFrom \in {"none", "RUNNING", "WAITING_APPROVAL"}
    /\ steps \in [Steps -> StepStatuses]
    /\ policy \in [Steps -> Decisions \cup {"none"}]
    /\ approval \in [Steps -> ApprovalStatuses]
    /\ index \in 1 .. N + 1
    /\ pc \in Waits \cup {"persist"}
    /\ cont \in Waits \cup {"none"}
    /\ verdict \in FinalSteps
    /\ version \in Nat
    /\ stored \in [status : RunStatuses, steps : [Steps -> StepStatuses],
                   policy : [Steps -> Decisions \cup {"none"}],
                   approval : [Steps -> ApprovalStatuses]]
    /\ storedVersion \in Nat
    /\ deploy \in [Steps -> {"no", "begun", "written"}]
    /\ rollback \in [Steps -> {"no", "begun", "written"}]
    /\ reserved \subseteq Steps
    /\ approvals \in Seq(Requests)
    /\ controls \in [{"pause", "resume", "cancel"} -> Nat]
    /\ budget \in 0 .. MaxSignals
    /\ expired \in BOOLEAN
    /\ accepted \in [Steps -> {request.action : request \in Requests} \cup {"none"}]
    /\ cancelAt \in 0 .. N + 1

\* The run CreateRunAtomic stored, and the workflow StartRelease started with it.
Init ==
    /\ status = "PENDING"
    /\ pausedFrom = "none"
    /\ steps = [i \in Steps |-> "PENDING"]
    /\ policy = [i \in Steps |-> "none"]
    /\ approval = [i \in Steps |-> "none"]
    /\ index = 1
    /\ pc = "start"
    /\ cont = "none"
    /\ verdict = "SUCCEEDED"
    /\ version = 1
    /\ stored = Snapshot
    /\ storedVersion = 1
    /\ deploy = [i \in Steps |-> "no"]
    /\ rollback = [i \in Steps |-> "no"]
    /\ reserved = {}
    /\ approvals = <<>>
    /\ controls = [c \in {"pause", "resume", "cancel"} |-> 0]
    /\ budget = MaxSignals
    /\ expired = FALSE
    /\ accepted = [i \in Steps |-> "none"]
    /\ cancelAt = 0

-----------------------------------------------------------------------------
(* PersistRun *)

\* The workflow calls persist and will go on at next.
Persist(next) ==
    /\ pc' = "persist"
    /\ cont' = next

\* An attempt of the pending persist commits, possibly after the workflow has
\* given up.  Attempts of earlier persists carry a smaller version: conflict.
PersistCommits ==
    /\ cont # "none"
    /\ storedVersion = version
    /\ stored' = Snapshot
    /\ storedVersion' = version + 1
    /\ UNCHANGED <<run, index, pc, cont, verdict, version, external, reserved,
                   inbox, requests, expired>>

\* An attempt reports success: it committed, or it met a conflict and found its
\* own snapshot one version ahead.
PersistAnswered ==
    /\ pc = "persist"
    /\ storedVersion = version + 1
    /\ stored = Snapshot
    /\ version' = version + 1
    /\ pc' = cont
    /\ cont' = "none"
    /\ UNCHANGED <<run, index, verdict, stored, storedVersion, external, reserved,
                   inbox, requests, expired>>

\* All attempts failed or timed out: the workflow returns the error.
PersistFails ==
    /\ pc = "persist"
    /\ pc' = "failed"
    /\ UNCHANGED <<run, index, cont, verdict, store, external, reserved, inbox,
                   requests, expired>>

-----------------------------------------------------------------------------
(* The loop of ReleaseWorkflow *)

\* Mutation: the step right after the failed one is left out.
CancelDownstreamOffByOne(s, from) ==
    [i \in Steps |-> IF i > from /\ s[i] = "PENDING" THEN "CANCELLED" ELSE s[i]]

CancelDownstream(s, from) ==
    [i \in Steps |-> IF i >= from /\ s[i] = "PENDING" THEN "CANCELLED" ELSE s[i]]

\* The current step ends the run.
StopRun(stepStatus, runStatus) ==
    /\ steps' = CancelDownstream([steps EXCEPT ![index] = stepStatus], index + 1)
    /\ status' = runStatus
    /\ Persist("returned")
    /\ UNCHANGED <<pausedFrom, policy>>

\* Mutation: every step is cancelled, whatever its status.
CancelRunAll(from) ==
    /\ status' = "CANCELLED"
    /\ steps' = [i \in Steps |-> "CANCELLED"]
    /\ Persist("returned")
    /\ UNCHANGED <<pausedFrom, policy, approval>>

CancelRun(from) ==
    /\ status' = "CANCELLED"
    /\ steps' = [i \in Steps |->
                   IF i >= from /\ steps[i] \in {"PENDING", "WAITING_APPROVAL"}
                   THEN "CANCELLED" ELSE steps[i]]
    /\ Persist("returned")
    /\ UNCHANGED <<pausedFrom, policy, approval>>

\* waitForResume up to its selector.
PauseRun ==
    /\ pausedFrom' = status
    /\ status' = "PAUSED"
    /\ Persist("paused")
    /\ UNCHANGED <<steps, policy, approval>>

Receive(channel) ==
    /\ controls[channel] > 0
    /\ controls' = [controls EXCEPT ![channel] = @ - 1]
    /\ UNCHANGED approvals

Start ==
    /\ pc = "start"
    /\ status' = "RUNNING"
    /\ Persist("top")
    /\ UNCHANGED <<pausedFrom, steps, policy, approval, index, verdict, store,
                   external, reserved, inbox, requests, expired>>

TopCancel ==
    /\ pc = "top"
    /\ index <= N
    /\ Receive("cancel")
    /\ CancelRun(index)
    /\ UNCHANGED <<index, verdict, store, external, reserved, requests, expired>>

TopPause ==
    /\ pc = "top"
    /\ index <= N
    /\ controls["cancel"] = 0
    /\ Receive("pause")
    /\ PauseRun
    /\ UNCHANGED <<index, verdict, store, external, reserved, requests, expired>>

\* Mutation: only pauses are looked for before a step.
BeginStepDespiteCancel ==
    /\ \/ pc = "step"
       \/ pc = "top" /\ index <= N /\ controls["pause"] = 0
    /\ \A d \in Deps[index] : steps[d] = "SUCCEEDED"
    /\ pc' = "evaluating"
    /\ UNCHANGED <<run, index, cont, verdict, store, external, reserved, inbox,
                   requests, expired>>

\* Nothing to receive (or just resumed): the dependencies are met, see
\* DependencyOrder, and the policy is asked.
BeginStep ==
    /\ \/ pc = "step"
       \/ pc = "top" /\ index <= N /\ controls["cancel"] = 0 /\ controls["pause"] = 0
    /\ \A d \in Deps[index] : steps[d] = "SUCCEEDED"
    /\ pc' = "evaluating"
    /\ UNCHANGED <<run, index, cont, verdict, store, external, reserved, inbox,
                   requests, expired>>

EvaluateStep(decision) ==
    /\ pc = "evaluating"
    /\ policy' = [policy EXCEPT ![index] = decision]
    /\ Persist("decided")
    /\ UNCHANGED <<status, pausedFrom, steps, approval, index, verdict, store,
                   external, reserved, inbox, requests, expired>>

Denied ==
    /\ pc = "decided"
    /\ policy[index] = "DENY"
    /\ StopRun("BLOCKED", "BLOCKED")
    /\ UNCHANGED <<approval, index, verdict, store, external, reserved, inbox,
                   requests, expired>>

Allowed ==
    /\ pc = "decided"
    /\ policy[index] = "ALLOW"
    /\ pc' = "acquiring"
    /\ UNCHANGED <<run, index, cont, verdict, store, external, reserved, inbox,
                   requests, expired>>

\* awaitApproval up to its selector.
RequestApproval ==
    /\ pc = "decided"
    /\ policy[index] = "REQUIRE_APPROVAL"
    /\ approval' = [approval EXCEPT ![index] = "PENDING"]
    /\ steps' = [steps EXCEPT ![index] = "WAITING_APPROVAL"]
    /\ status' = "WAITING_APPROVAL"
    /\ expired' = FALSE
    /\ Persist("waiting")
    /\ UNCHANGED <<pausedFrom, policy, index, verdict, store, external, reserved,
                   inbox, requests>>

-----------------------------------------------------------------------------
(* The selector of awaitApproval.  Blocked, it takes what arrives first; with *)
(* several things ready it takes the first in the order approval, pause,      *)
(* cancel, timer.  The model lets it take any that is ready.                  *)

\* Mutation: any approval signal counts for the current step.
IgnoredNever(signal) == FALSE

\* A signal for another approval.  The actor and role tests repeat, with the same
\* outcome, those the application made before it sent the signal.
Ignored(signal) == signal.step # index

\* The head of the approval channel.
TakeApproval ==
    LET signal == Head(approvals)
    IN
    /\ pc = "waiting"
    /\ approvals # <<>>
    /\ approvals' = Tail(approvals)
    /\ IF Ignored(signal)
       THEN UNCHANGED <<run, pc, cont>>
       ELSE \/ /\ signal.action = "approve"
               /\ approval' = [approval EXCEPT ![index] = "APPROVED"]
               /\ steps' = [steps EXCEPT ![index] = "PENDING"]
               /\ status' = "RUNNING"
               /\ Persist("acquiring")
               /\ UNCHANGED <<pausedFrom, policy>>
            \/ /\ signal.action = "deny"
               /\ approval' = [approval EXCEPT ![index] = "DENIED"]
               /\ StopRun("BLOCKED", "BLOCKED")
            \/ /\ signal.action = "revoke"
               /\ approval' = [approval EXCEPT ![index] = "REVOKED"]
               /\ StopRun("BLOCKED", "BLOCKED")
    /\ UNCHANGED <<index, verdict, store, external, reserved, controls, requests, expired>>

WaitingPause ==
    /\ pc = "waiting"
    /\ Receive("pause")
    /\ PauseRun
    /\ UNCHANGED <<index, verdict, store, external, reserved, requests, expired>>

WaitingCancel ==
    /\ pc = "waiting"
    /\ Receive("cancel")
    /\ CancelRun(index)
    /\ UNCHANGED <<index, verdict, store, external, reserved, requests, expired>>

\* Mutation: the selector has no timer.
ExpireNever == FALSE

Expire ==
    /\ pc = "waiting"
    /\ expired
    /\ approval' = [approval EXCEPT ![index] = "EXPIRED"]
    /\ StopRun("BLOCKED", "BLOCKED")
    /\ UNCHANGED <<index, verdict, store, external, reserved, inbox, requests, expired>>

\* The selector of waitForResume.  A resume leads back to the caller: the loop
\* when the run was RUNNING, the approval selector when it was waiting there.
PausedResume ==
    /\ pc = "paused"
    /\ Receive("resume")
    /\ status' = pausedFrom
    /\ pausedFrom' = "none"
    /\ Persist(IF pausedFrom = "RUNNING" THEN "step" ELSE "waiting")
    /\ UNCHANGED <<steps, policy, approval, index, verdict, store, external, reserved,
                   requests, expired>>

\* Mutation: the pause selector listens to resume only.
PausedCancelNever == FALSE

PausedCancel ==
    /\ pc = "paused"
    /\ Receive("cancel")
    /\ CancelRun(index)
    /\ UNCHANGED <<index, verdict, store, external, reserved, requests, expired>>

-----------------------------------------------------------------------------
(* Scheduling, deployment, verification and rollback of the current step *)

AcquireGranted ==
    /\ pc = "acquiring"
    /\ reserved' = reserved \cup {index}
    /\ steps' = [steps EXCEPT ![index] = "EXECUTING"]
    /\ Persist("deploy")
    /\ UNCHANGED <<status, pausedFrom, policy, approval, index, verdict, store,
                   external, inbox, requests, expired>>

\* Mutation: a step without budget is blocked and the loop goes on.
AcquireSkips ==
    /\ pc = "acquiring"
    /\ steps' = [steps EXCEPT ![index] = "BLOCKED"]
    /\ index' = index + 1
    /\ Persist("top")
    /\ UNCHANGED <<status, pausedFrom, policy, approval, verdict, store, external,
                   reserved, inbox, requests, expired>>

AcquireRefused ==
    /\ pc = "acquiring"
    /\ StopRun("BLOCKED", "BLOCKED")
    /\ UNCHANGED <<approval, index, verdict, store, external, reserved, inbox,
                   requests, expired>>

\* Calls CompleteSchedule; the step gets its status when it has answered.  (The
\* verified and rolled back branches assign it before; nobody looks between.)
Finish(stepStatus) ==
    /\ verdict' = stepStatus
    /\ pc' = "releasing"
    /\ UNCHANGED <<run, index, cont, store, reserved, inbox, requests, expired>>

\* CompleteSchedule answered: a success goes on with the next step.
Release ==
    /\ pc = "releasing"
    /\ reserved' = reserved \ {index}
    /\ IF verdict = "SUCCEEDED"
       THEN /\ steps' = [steps EXCEPT ![index] = "SUCCEEDED"]
            /\ index' = index + 1
            /\ Persist("top")
            /\ UNCHANGED <<status, pausedFrom, policy>>
       ELSE /\ StopRun(verdict, IF verdict = "ESCALATED" THEN "ESCALATED"
                                ELSE IF verdict = "ROLLED_BACK" THEN "FAILED" ELSE "BLOCKED")
            /\ UNCHANGED index
    /\ verdict' = "SUCCEEDED"
    /\ UNCHANGED <<approval, store, external, inbox, requests, expired>>

\* EvaluateStep, AcquireSchedule or CompleteSchedule fails for good, the last two
\* with or without their effect: the workflow returns the error.
ActivityFails ==
    /\ pc \in {"evaluating", "acquiring", "releasing"}
    /\ \/ UNCHANGED reserved
       \/ pc = "acquiring" /\ reserved' = reserved \cup {index}
       \/ pc = "releasing" /\ reserved' = reserved \ {index}
    /\ pc' = "failed"
    /\ UNCHANGED <<run, index, cont, verdict, store, external, inbox, requests, expired>>

StartDeploy ==
    /\ pc = "deploy"
    /\ deploy' = [deploy EXCEPT ![index] = "begun"]
    /\ pc' = "deploying"
    /\ UNCHANGED <<run, index, cont, verdict, store, rollback, reserved, inbox,
                   requests, expired>>

\* The executor writes to the outside, however late.
DeployWrites(i) ==
    /\ deploy[i] = "begun"
    /\ deploy' = [deploy EXCEPT ![i] = "written"]
    /\ UNCHANGED <<run, index, pc, cont, verdict, store, rollback, reserved, inbox,
                   requests, expired>>

DeployReturns ==
    /\ pc = "deploying"
    /\ deploy[index] = "written"
    /\ IF index \in Verified
       THEN /\ steps' = [steps EXCEPT ![index] = "VERIFYING"]
            /\ Persist("verifying")
            /\ UNCHANGED <<status, pausedFrom, policy, approval, index, verdict, store,
                           reserved, inbox, requests, expired>>
       ELSE Finish("SUCCEEDED")
    /\ UNCHANGED external

\* Mutation: an unknown deployment is recorded as one that did not happen.
DeployFailsBlocked ==
    /\ pc = "deploying"
    /\ Finish("BLOCKED")
    /\ UNCHANGED external

DeployFails ==
    /\ pc = "deploying"
    /\ Finish("UNKNOWN")
    /\ UNCHANGED external

VerifyPasses ==
    /\ pc = "verifying"
    /\ Finish("SUCCEEDED")
    /\ UNCHANGED external

VerifyFails ==
    /\ pc = "verifying"
    /\ Finish("BLOCKED")
    /\ UNCHANGED external

\* FAIL, INCONCLUSIVE and MISSING alike.
VerifyDoesNotPass ==
    /\ pc = "verifying"
    /\ IF index \in AutoRollback
       THEN /\ steps' = [steps EXCEPT ![index] = "ROLLING_BACK"]
            /\ Persist("rollback")
            /\ UNCHANGED <<status, pausedFrom, policy, approval, index, verdict, store,
                           reserved, inbox, requests, expired>>
       ELSE Finish("ESCALATED")
    /\ UNCHANGED external

StartRollback ==
    /\ pc = "rollback"
    /\ rollback' = [rollback EXCEPT ![index] = "begun"]
    /\ pc' = "rollingBack"
    /\ UNCHANGED <<run, index, cont, verdict, store, deploy, reserved, inbox,
                   requests, expired>>

RollbackWrites(i) ==
    /\ rollback[i] = "begun"
    /\ rollback' = [rollback EXCEPT ![i] = "written"]
    /\ UNCHANGED <<run, index, pc, cont, verdict, store, deploy, reserved, inbox,
                   requests, expired>>

RollbackReturns ==
    /\ pc = "rollingBack"
    /\ rollback[index] = "written"
    /\ pc' = "verifyingRollback"
    /\ UNCHANGED <<run, index, cont, verdict, store, external, reserved, inbox,
                   requests, expired>>

\* Rollback fails, or its verification fails or does not pass.
RollbackFails ==
    /\ pc \in {"rollingBack", "verifyingRollback"}
    /\ Finish("ESCALATED")
    /\ UNCHANGED external

RollbackVerified ==
    /\ pc = "verifyingRollback"
    /\ Finish("ROLLED_BACK")
    /\ UNCHANGED external

Complete ==
    /\ pc = "top"
    /\ index = N + 1
    /\ status' = "SUCCEEDED"
    /\ Persist("returned")
    /\ UNCHANGED <<pausedFrom, steps, policy, approval, index, verdict, store,
                   external, reserved, inbox, requests, expired>>

-----------------------------------------------------------------------------
(* The operators, through the application, and time *)

\* Temporal accepts signals of a workflow that has not closed.
Send ==
    /\ pc \notin {"returned", "failed"}
    /\ budget > 0
    /\ budget' = budget - 1
    /\ UNCHANGED <<run, index, pc, cont, verdict, store, external, reserved, expired>>

\* DecideApproval and RevokeApprovalForTenant: they look at the stored run.
SendApproval(request) ==
    /\ stored.approval[request.step] = "PENDING"
    /\ request.action = "revoke" \/ ~expired
    /\ approvals' = Append(approvals, request)
    /\ accepted' = [accepted EXCEPT ![request.step] =
                        IF @ = "none" THEN request.action ELSE @]
    /\ Send
    /\ UNCHANGED <<controls, cancelAt>>

\* control: whatever the state of the run.
SendControl(channel) ==
    /\ controls' = [controls EXCEPT ![channel] = @ + 1]
    /\ cancelAt' = IF channel = "cancel" /\ cancelAt = 0 THEN index ELSE cancelAt
    /\ Send
    /\ UNCHANGED <<approvals, accepted>>

\* ExpiresAt of the pending approval passes.
TimePasses ==
    /\ index \in Steps
    /\ approval[index] = "PENDING"
    /\ pc \notin {"returned", "failed"}
    /\ ~expired
    /\ expired' = TRUE
    /\ UNCHANGED <<run, index, pc, cont, verdict, store, external, reserved, inbox, requests>>

WorkflowStep ==
    \/ PersistAnswered \/ PersistFails
    \/ Start \/ TopCancel \/ TopPause \/ BeginStep \/ Complete
    \/ \E decision \in Decisions : EvaluateStep(decision)
    \/ Denied \/ Allowed \/ RequestApproval
    \/ TakeApproval \/ WaitingPause \/ WaitingCancel \/ Expire
    \/ PausedResume \/ PausedCancel
    \/ AcquireGranted \/ AcquireRefused \/ Release \/ ActivityFails
    \/ StartDeploy \/ DeployReturns \/ DeployFails
    \/ VerifyPasses \/ VerifyFails \/ VerifyDoesNotPass
    \/ StartRollback \/ RollbackReturns \/ RollbackFails \/ RollbackVerified

Next ==
    \/ WorkflowStep
    \/ PersistCommits
    \/ \E i \in Steps : DeployWrites(i) \/ RollbackWrites(i)
    \/ \E request \in Requests : SendApproval(request)
    \/ \E channel \in {"pause", "resume", "cancel"} : SendControl(channel)
    \/ TimePasses

Spec == Init /\ [][Next]_vars

\* Activities are answered or time out, Temporal delivers what is due, and its
\* timers fire.  Nothing is assumed of the operators or of the outside.
FairSpec == Spec /\ WF_vars(WorkflowStep) /\ WF_vars(TimePasses)

-----------------------------------------------------------------------------
(* Properties *)

Done == pc \in {"returned", "failed"}

\* Nothing is deployed before the store holds the authorisation for it: a policy
\* decision ALLOW, or an approval.  The approval was given for this very step,
\* and before any denial or revocation of it that the application accepted: of
\* several decisions the first one stands, however long they were queued and
\* whatever pauses came between (the approval branch of the loop, awaitApproval).
Authorised ==
    \A i \in Steps : deploy[i] # "no" =>
        \/ stored.policy[i] = "ALLOW"
        \/ /\ stored.policy[i] = "REQUIRE_APPROVAL"
           /\ stored.approval[i] = "APPROVED"
           /\ accepted[i] = "approve"

\* A step is deployed only when the store shows every dependency as succeeded,
\* so the branch of the loop for an unmet dependency is never taken.
DependencyOrder ==
    /\ \A i \in Steps : deploy[i] # "no" =>
          \A d \in Deps[i] : stored.steps[d] = "SUCCEEDED"
    /\ (pc = "step" \/ (pc = "top" /\ index <= N)) =>
          \A d \in Deps[index] : steps[d] = "SUCCEEDED"

\* What the store says of a step is true of the outside, and stays so when an
\* abandoned Deploy or Rollback writes late: a write can only be outstanding
\* where the step is shown as in progress, unknown or escalated.  When the
\* workflow has returned normally the store holds its final run: nothing is in
\* progress, success means every step succeeded, no reservation is kept.
StoredIsTrue ==
    /\ pc = "returned" =>
          /\ stored = Snapshot
          /\ status \in {"BLOCKED", "FAILED", "ESCALATED", "CANCELLED", "SUCCEEDED"}
          /\ \A i \in Steps : steps[i] \in FinalSteps
          /\ status = "SUCCEEDED" <=> \A i \in Steps : steps[i] = "SUCCEEDED"
          /\ reserved = {}
    /\ \A i \in Steps :
        LET shown == stored.steps[i] IN
        /\ shown \in {"PENDING", "WAITING_APPROVAL", "CANCELLED"} => deploy[i] = "no"
        /\ shown \in {"VERIFYING", "SUCCEEDED", "ROLLING_BACK", "ROLLED_BACK", "ESCALATED"}
             => deploy[i] = "written"
        /\ deploy[i] = "begun" => shown \in {"EXECUTING", "UNKNOWN"}
        /\ rollback[i] = "begun" => shown \in {"ROLLING_BACK", "ESCALATED"}
        /\ shown = "ROLLED_BACK" => rollback[i] = "written"
        /\ shown = "SUCCEEDED" => rollback[i] = "no"

\* A cancel that arrives while step i is current stops the run before any later
\* step, wherever in the step it arrives (cancelChannel, the three receivers).
CancelStops ==
    cancelAt > 0 => \A i \in Steps : deploy[i] # "no" => i <= cancelAt

\* The stored run never goes back: a step shown in a final status keeps it, a
\* late attempt of PersistRun included.
FinalStays ==
    [][\A i \in Steps : stored.steps[i] \in FinalSteps
          => stored'.steps[i] = stored.steps[i]]_vars

\* Every run ends unless it is left paused.
EndsUnlessPaused == <>Done \/ <>[](pc = "paused")

\* A cancel of a run that is waiting for an approval or paused ends it.
CancelEnds ==
    pc \in {"waiting", "paused"} /\ controls["cancel"] > 0 ~> Done
=============================================================================
