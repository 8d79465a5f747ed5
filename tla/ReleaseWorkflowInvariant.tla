----------------------- MODULE ReleaseWorkflowInvariant ----------------------
(***************************************************************************)
(* The inductive invariant of ReleaseWorkflow, what the workflow's steps   *)
(* and those of the others do, and the parts of the invariant that say     *)
(* where the workflow is.                                                  *)
(***************************************************************************)
EXTENDS ReleaseWorkflow, TLAPS

\* Where the workflow is, or goes on once its persist is answered.  It keeps the
\* place when the persist fails: a late attempt may still commit that snapshot.
Where == IF cont = "none" THEN pc ELSE cont

Before == {"start", "top", "step", "evaluating", "decided"}
Executing == {"acquiring", "deploy", "deploying", "verifying", "rollback", "rollingBack",
              "verifyingRollback", "releasing"}
Over == {"returned", "failed"}

\* The types the argument needs; versions, budget and expiry are not among them.
WorkflowTypes ==
    /\ steps \in [Steps -> StepStatuses]
    /\ policy \in [Steps -> Decisions \cup {"none"}]
    /\ approval \in [Steps -> ApprovalStatuses]
    /\ index \in 1 .. N + 1
    /\ cont # "persist"
    /\ verdict \in FinalSteps
    /\ stored.steps \in [Steps -> StepStatuses]
    /\ deploy \in [Steps -> {"no", "begun", "written"}]
    /\ rollback \in [Steps -> {"no", "begun", "written"}]
    /\ approvals \in Seq(Requests)
    /\ controls \in [{"pause", "resume", "cancel"} -> Nat]
    /\ accepted \in [Steps -> {"approve", "deny", "revoke", "none"}]
    /\ cancelAt \in 0 .. N + 1

\* Unless a persist is pending or was given up, the store holds the run.
PersistInv ==
    /\ cont # "none" => pc \in {"persist", "failed"}
    /\ pc = "persist" => cont # "none"
    /\ cont = "none" => stored = Snapshot

\* The steps before the current one have succeeded, those after it are untouched.
ProgressInv ==
    /\ \A i \in Steps : i < index => steps[i] = "SUCCEEDED"
    /\ \A i \in Steps : i > index =>
          /\ steps[i] \in {"PENDING", "CANCELLED"} /\ approval[i] = "none"
          /\ Where \notin Over => steps[i] = "PENDING"
    /\ \A i \in Steps : approval[i] = "PENDING" => i = index
    /\ reserved \subseteq {index}
    /\ Where \notin {"start", "top", "returned", "failed"} => index \in Steps

\* A step's status, its deployment and its rollback agree.
Agrees(shown, d, r) ==
    /\ shown \in {"PENDING", "WAITING_APPROVAL", "CANCELLED"} => d = "no"
    /\ shown \in {"VERIFYING", "SUCCEEDED", "ROLLING_BACK", "ROLLED_BACK", "ESCALATED"} => d = "written"
    /\ shown = "BLOCKED" => d # "begun"
    /\ shown = "UNKNOWN" => d # "no"
    /\ shown \notin {"ROLLING_BACK", "ROLLED_BACK", "ESCALATED"} => r = "no"
    /\ shown = "ROLLED_BACK" => r = "written"

\* A step may be deployed.
Cleared(decision, state, first) ==
    \/ decision = "ALLOW"
    \/ decision = "REQUIRE_APPROVAL" /\ state = "APPROVED" /\ first = "approve"

\* What is known of the current step at each place.
PlaceInv ==
    /\ Where \in (Before \ {"start"}) \cup Executing => status = "RUNNING"
    /\ index \in Steps =>
        /\ Where \in Before => steps[index] = "PENDING" /\ approval[index] = "none"
        /\ Where = "waiting" => /\ steps[index] = "WAITING_APPROVAL" /\ approval[index] = "PENDING"
                                /\ status = "WAITING_APPROVAL" /\ policy[index] = "REQUIRE_APPROVAL"
        /\ Where = "paused" =>
              \/ pausedFrom = "RUNNING" /\ steps[index] = "PENDING" /\ approval[index] = "none"
              \/ /\ pausedFrom = "WAITING_APPROVAL" /\ steps[index] = "WAITING_APPROVAL"
                 /\ approval[index] = "PENDING" /\ policy[index] = "REQUIRE_APPROVAL"
        /\ Where \in Executing =>
              /\ approval[index] # "PENDING"
              /\ Cleared(policy[index], approval[index], accepted[index])
        /\ Where = "acquiring" => steps[index] = "PENDING"
        /\ Where \in {"deploy", "deploying"} => steps[index] = "EXECUTING"
        /\ Where = "deploying" => deploy[index] # "no"
        /\ Where = "verifying" => steps[index] = "VERIFYING"
        /\ Where \in {"rollback", "rollingBack", "verifyingRollback"} => steps[index] = "ROLLING_BACK"
        /\ Where = "verifyingRollback" => rollback[index] = "written"
        /\ Where = "releasing" =>
              /\ steps[index] \in {"EXECUTING", "VERIFYING", "ROLLING_BACK"}
              /\ Agrees(verdict, deploy[index], rollback[index])
              /\ verdict # "CANCELLED"
    /\ Where \in Before \cup {"waiting", "paused", "acquiring", "returned"} => reserved = {}
    /\ Where = "returned" =>
          \/ index = N + 1 /\ status = "SUCCEEDED"
          \/ /\ index \in Steps /\ status \in {"BLOCKED", "FAILED", "ESCALATED", "CANCELLED"}
             /\ steps[index] \in FinalSteps \ {"SUCCEEDED"}
             /\ \A i \in Steps : i > index => steps[i] = "CANCELLED"

\* The run in memory and the run in the store agree with the outside, and the
\* store is behind at most on steps that are not final there.
TruthInv ==
    \A i \in Steps :
        /\ Agrees(steps[i], deploy[i], rollback[i])
        /\ Agrees(stored.steps[i], deploy[i], rollback[i])
        /\ stored.steps[i] \in FinalSteps => steps[i] = stored.steps[i]

\* What was deployed is cleared, in memory and in the store, and so is whatever
\* it depends on.
ClearedInv ==
    \A i \in Steps : deploy[i] # "no" =>
        /\ Cleared(policy[i], approval[i], accepted[i])
        /\ Cleared(stored.policy[i], stored.approval[i], accepted[i])
        /\ \A d \in Steps : d < i => stored.steps[d] = "SUCCEEDED"

\* While an approval is pending the first queued signal for it is the first
\* decision the application accepted, and before it was requested there is none.
Queued(i, state, first, queue) ==
    /\ state = "none" => first = "none"
    /\ first = "none" => \A n \in 1 .. Len(queue) : queue[n].step # i
    /\ state = "PENDING" =>
          /\ \A n \in 1 .. Len(queue) :
                queue[n].step = i /\ (\A m \in 1 .. n - 1 : queue[m].step # i)
                   => queue[n].action = first
          /\ first # "none" => \E n \in 1 .. Len(queue) : queue[n].step = i

QueueInv ==
    \A i \in Steps :
        /\ stored.approval[i] # "none" => approval[i] # "none"
        /\ Queued(i, approval[i], accepted[i], approvals)

\* A cancel stays in its channel until the run is over, and a step after the one
\* it met is not begun.
CancelInv ==
    cancelAt > 0 =>
        /\ Where \notin Over => controls["cancel"] > 0
        /\ cancelAt <= index
        /\ cancelAt < index => Where \in {"top"} \cup Over
        /\ \A i \in Steps : deploy[i] # "no" => i <= cancelAt

IInv == WorkflowTypes /\ PersistInv /\ ProgressInv /\ PlaceInv /\ TruthInv /\ ClearedInv
        /\ QueueInv /\ CancelInv
-----------------------------------------------------------------------------

\* The run CreateRunAtomic stored satisfies it.
LEMMA InitIInv == Init => IInv
<1> SUFFICES ASSUME Init PROVE IInv
  OBVIOUS
<1> USE PlanAssumption DEF Init
<1>1. WorkflowTypes
  BY DEF WorkflowTypes, StepStatuses, FinalSteps, ApprovalStatuses, Snapshot, Steps
<1>2. PersistInv
  BY Zenon DEF PersistInv
<1>3. ProgressInv
  BY DEF ProgressInv, Where, Over, Steps
<1>4. PlaceInv
  BY Zenon DEF PlaceInv, Where, Before, Executing
<1>5. TruthInv
  BY Zenon DEF TruthInv, Agrees, Snapshot
<1>6. ClearedInv /\ QueueInv /\ CancelInv
  BY DEF ClearedInv, QueueInv, Queued, CancelInv, Snapshot
<1>7. QED
  BY <1>1, <1>2, <1>3, <1>4, <1>5, <1>6, Zenon DEF IInv

\* Outside of a persist the workflow is where its pc is and the store is up to date.
LEMMA AtWork ==
  ASSUME PersistInv, pc \notin {"persist", "failed"}
  PROVE  cont = "none" /\ Where = pc /\ stored = Snapshot
  BY Zenon DEF PersistInv, Where

\* The names of step statuses, and that the three ways to change them stay among them.
LEMMA StatusNames ==
  /\ FinalSteps \subseteq StepStatuses
  /\ {"PENDING", "WAITING_APPROVAL", "EXECUTING", "VERIFYING", "ROLLING_BACK"} \subseteq StepStatuses
  /\ {"SUCCEEDED", "BLOCKED", "UNKNOWN", "ESCALATED", "ROLLED_BACK", "CANCELLED"} \subseteq FinalSteps
  BY Zenon DEF StepStatuses, FinalSteps

\* StopRun sets the current step and cancels the pending ones after it.
LEMMA StopSteps ==
  ASSUME WorkflowTypes, NEW stepStatus \in StepStatuses, NEW runStatus, StopRun(stepStatus, runStatus)
  PROVE  /\ steps' \in [Steps -> StepStatuses]
         /\ index \in Steps => steps'[index] = stepStatus
         /\ \A i \in Steps : i < index => steps'[i] = steps[i]
         /\ \A i \in Steps : i > index =>
               steps'[i] = IF steps[i] = "PENDING" THEN "CANCELLED" ELSE steps[i]
<1> DEFINE stopped == [steps EXCEPT ![index] = stepStatus]
<1>1. stopped \in [Steps -> StepStatuses]
  BY Zenon DEF WorkflowTypes
<1>2. \A i \in Steps : stopped[i] = IF i = index THEN stepStatus ELSE steps[i]
  BY Zenon DEF WorkflowTypes
<1>3. steps' = [i \in Steps |-> IF i >= index + 1 /\ stopped[i] = "PENDING" THEN "CANCELLED" ELSE stopped[i]]
  BY Zenon DEF StopRun, CancelDownstream
<1> HIDE DEF stopped
<1>4. steps' \in [Steps -> StepStatuses]
  BY <1>1, <1>3, StatusNames, Zenon
<1>5. index \in Nat /\ \A i \in Steps : i \in Nat
  BY PlanAssumption DEF WorkflowTypes, Steps
<1>6. QED
  BY <1>2, <1>3, <1>4, <1>5

\* Every step preserves the types.
LEMMA NextTypes == IInv /\ [Next]_vars => WorkflowTypes'
<1> SUFFICES ASSUME IInv, [Next]_vars PROVE WorkflowTypes'
  OBVIOUS
<1>0. WorkflowTypes
  BY Zenon DEF IInv
<1> USE <1>0, PlanAssumption DEF WorkflowTypes, run, store, external, inbox, requests
<1>1. CASE PersistAnswered \/ PersistFails \/ Start \/ BeginStep \/ Complete \/ ActivityFails
  BY <1>1 DEF PersistAnswered, PersistFails, Start, BeginStep, Complete, ActivityFails, Persist
<1>2. CASE TopCancel \/ WaitingCancel \/ PausedCancel
  <2>1. steps' \in [Steps -> StepStatuses]
    BY <1>2, StatusNames DEF TopCancel, WaitingCancel, PausedCancel, CancelRun
  <2>2. controls' \in [{"pause", "resume", "cancel"} -> Nat]
    BY <1>2 DEF TopCancel, WaitingCancel, PausedCancel, Receive
  <2>3. /\ cont' = "returned"
        /\ UNCHANGED <<policy, approval, approvals, index, verdict, store, external, requests>>
    BY <1>2, Zenon DEF TopCancel, WaitingCancel, PausedCancel, Receive, CancelRun, Persist
  <2>4. QED
    BY <2>1, <2>2, <2>3, Zenon
<1>3. CASE TopPause \/ WaitingPause \/ PausedResume
  BY <1>3, SMTT(30) DEF TopPause, WaitingPause, PausedResume, Receive, PauseRun, Persist
<1>4. CASE (\E decision \in Decisions : EvaluateStep(decision)) \/ Allowed
  BY <1>4, SMTT(30) DEF EvaluateStep, Allowed, Persist
<1>5. CASE RequestApproval
  BY <1>5, StatusNames, Zenon DEF RequestApproval, Persist, ApprovalStatuses
<1>6. CASE Denied \/ Expire \/ AcquireRefused
  <2>1. steps' \in [Steps -> StepStatuses]
    BY <1>6, StatusNames, StopSteps, Zenon DEF Denied, Expire, AcquireRefused
  <2>2. QED
    BY <1>6, <2>1, SMTT(30) DEF Denied, Expire, AcquireRefused, StopRun, Persist, ApprovalStatuses
<1>7. CASE TakeApproval
  <2>1. steps' \in [Steps -> StepStatuses]
    BY <1>7, StatusNames, StopSteps, Zenon DEF TakeApproval
  <2>2. approvals' \in Seq(Requests) /\ approval' \in [Steps -> ApprovalStatuses]
    BY <1>7, SMTT(30) DEF TakeApproval, ApprovalStatuses
  <2>3. policy' = policy /\ cont' \in {cont, "acquiring", "returned"}
    BY <1>7, Zenon DEF TakeApproval, StopRun, Persist
  <2>4. QED
    BY <1>7, <2>1, <2>2, <2>3, Zenon DEF TakeApproval
<1>8. CASE AcquireGranted
  BY <1>8, StatusNames, Zenon DEF AcquireGranted, Persist
<1>9. CASE Release
  <2>1. steps' \in [Steps -> StepStatuses]
    BY <1>9, StatusNames, StopSteps DEF Release
  <2>2. index' \in 1 .. N + 1
    BY <1>9, AtWork DEF Release, IInv, ProgressInv, Steps
  <2>3. policy' = policy /\ cont' \in {"top", "returned"} /\ verdict' \in FinalSteps
    BY <1>9, StatusNames, Zenon DEF Release, StopRun, Persist
  <2>4. QED
    BY <1>9, <2>1, <2>2, <2>3, Zenon DEF Release
<1>10. CASE DeployReturns \/ VerifyDoesNotPass
  <2>1. steps' \in [Steps -> StepStatuses] /\ verdict' \in FinalSteps
    BY <1>10, StatusNames, ZenonT(40) DEF DeployReturns, VerifyDoesNotPass, Finish
  <2>2. cont' # "persist"
    BY <1>10, Zenon DEF DeployReturns, VerifyDoesNotPass, Finish, Persist
  <2>3. UNCHANGED <<policy, approval, index, store, external, inbox, requests>>
    BY <1>10, Zenon DEF DeployReturns, VerifyDoesNotPass, Finish
  <2>4. QED
    BY <2>1, <2>2, <2>3, Zenon
<1>11. CASE \/ DeployFails \/ VerifyPasses \/ VerifyFails \/ RollbackFails \/ RollbackVerified
  BY <1>11, StatusNames DEF DeployFails, VerifyPasses, VerifyFails, RollbackFails,
     RollbackVerified, Finish
<1>12. CASE StartDeploy \/ StartRollback \/ RollbackReturns
  <2>1. CASE StartDeploy
    BY <2>1, Zenon DEF StartDeploy
  <2>2. CASE StartRollback
    BY <2>2, Zenon DEF StartRollback
  <2>3. CASE RollbackReturns
    BY <2>3, Zenon DEF RollbackReturns
  <2>4. QED
    BY <1>12, <2>1, <2>2, <2>3, Zenon
<1>13. CASE PersistCommits
  BY <1>13, Zenon DEF PersistCommits, Snapshot
<1>14. CASE \E i \in Steps : DeployWrites(i) \/ RollbackWrites(i)
  <2>1. deploy' \in [Steps -> {"no", "begun", "written"}]
    BY <1>14 DEF DeployWrites, RollbackWrites
  <2>2. rollback' \in [Steps -> {"no", "begun", "written"}]
    BY <1>14 DEF DeployWrites, RollbackWrites
  <2>3. QED
    BY <1>14, <2>1, <2>2 DEF DeployWrites, RollbackWrites
<1>15. CASE \E request \in Requests : SendApproval(request)
  BY <1>15 DEF SendApproval, Send, Requests
<1>16. CASE \E channel \in {"pause", "resume", "cancel"} : SendControl(channel)
  <2>1. PICK channel \in {"pause", "resume", "cancel"} : SendControl(channel)
    BY <1>16, Zenon
  <2>2. cancelAt' \in 0 .. N + 1 /\ controls' \in [{"pause", "resume", "cancel"} -> Nat]
    BY <2>1 DEF SendControl
  <2>3. QED
    BY <2>1, <2>2, Zenon DEF SendControl, Send
<1>17. CASE TimePasses \/ UNCHANGED vars
  BY <1>17, Zenon DEF TimePasses, vars
<1>18. QED
  BY <1>1, <1>2, <1>3, <1>4, <1>5, <1>6, <1>7, <1>8, <1>9, <1>10, <1>11, <1>12, <1>13, <1>14,
     <1>15, <1>16, <1>17, Zenon DEF Next, WorkflowStep

\* The workflow's own steps take it from a place where the store is up to date,
\* leave the store alone, and either start a persist or leave the run alone.
OwnStep ==
    \/ Start \/ TopCancel \/ TopPause \/ BeginStep \/ Complete
    \/ \E decision \in Decisions : EvaluateStep(decision)
    \/ Denied \/ Allowed \/ RequestApproval
    \/ TakeApproval \/ WaitingPause \/ WaitingCancel \/ Expire
    \/ PausedResume \/ PausedCancel
    \/ AcquireGranted \/ AcquireRefused \/ Release \/ ActivityFails
    \/ StartDeploy \/ DeployReturns \/ DeployFails
    \/ VerifyPasses \/ VerifyFails \/ VerifyDoesNotPass
    \/ StartRollback \/ RollbackReturns \/ RollbackFails \/ RollbackVerified

\* The steps that leave the workflow and the store where they are.
OutsideStep ==
    \/ \E i \in Steps : DeployWrites(i) \/ RollbackWrites(i)
    \/ \E request \in Requests : SendApproval(request)
    \/ \E channel \in {"pause", "resume", "cancel"} : SendControl(channel)
    \/ TimePasses \/ UNCHANGED vars

\* An answered or failed persist leaves everything but pc and cont, and the place.
LEMMA PersistStep ==
  ASSUME IInv, PersistAnswered \/ PersistFails
  PROVE  /\ Where' = Where /\ PersistInv'
         /\ UNCHANGED <<run, index, verdict, stored, external, reserved, inbox, requests, expired>>
<1>1. CASE PersistAnswered
  BY <1>1, Zenon DEF IInv, WorkflowTypes, PersistInv, PersistAnswered, Where,
     Snapshot, run
<1>2. CASE PersistFails
  BY <1>2, Zenon DEF IInv, PersistInv, PersistFails, Where, Snapshot, run, store
<1>3. QED
  BY <1>1, <1>2, Zenon

\* See OwnStep.
LEMMA OwnSteps ==
  ASSUME IInv, OwnStep
  PROVE  /\ pc \notin {"persist"} \cup Over /\ cont = "none" /\ Where = pc
         /\ stored = Snapshot /\ stored' = stored
         /\ \/ pc' = "persist" /\ cont' \notin {"none", "persist", "failed"} /\ Where' = cont'
            \/ /\ pc' # "persist" /\ cont' = "none" /\ Where' = pc' /\ UNCHANGED run
<1>1. pc \notin {"persist"} \cup Over
  BY Zenon DEF OwnStep, Over, Start, TopCancel, TopPause, BeginStep, Complete, EvaluateStep, Denied,
     Allowed, RequestApproval, TakeApproval, WaitingPause, WaitingCancel, Expire, PausedResume,
     PausedCancel, AcquireGranted, AcquireRefused, Release, ActivityFails, StartDeploy,
     DeployReturns, DeployFails, VerifyPasses, VerifyFails, VerifyDoesNotPass, StartRollback,
     RollbackReturns, RollbackFails, RollbackVerified
<1>2. cont = "none" /\ Where = pc /\ stored = Snapshot
  BY <1>1, AtWork, Zenon DEF IInv, Over
<1>3. stored' = stored
  BY Zenon DEF OwnStep, store, Start, TopCancel, TopPause, BeginStep, Complete, EvaluateStep, Denied,
     Allowed, RequestApproval, TakeApproval, WaitingPause, WaitingCancel, Expire, PausedResume,
     PausedCancel, AcquireGranted, AcquireRefused, Release, ActivityFails, StartDeploy,
     DeployReturns, DeployFails, VerifyPasses, VerifyFails, VerifyDoesNotPass, StartRollback,
     RollbackReturns, RollbackFails, RollbackVerified, Finish
<1>4. \/ pc' = "persist" /\ cont' \notin {"none", "persist", "failed"}
      \/ pc' # "persist" /\ cont' = cont /\ UNCHANGED run
  BY <1>1, Zenon DEF OwnStep, run, Start, TopCancel, TopPause, BeginStep, Complete, EvaluateStep,
     Denied, Allowed, RequestApproval, TakeApproval, WaitingPause, WaitingCancel, Expire,
     PausedResume, PausedCancel, AcquireGranted, AcquireRefused, Release, ActivityFails,
     StartDeploy, DeployReturns, DeployFails, VerifyPasses, VerifyFails, VerifyDoesNotPass,
     StartRollback, RollbackReturns, RollbackFails, RollbackVerified, Finish, StopRun, CancelRun,
     PauseRun, Persist
<1>5. QED
  BY <1>1, <1>2, <1>3, <1>4, Zenon DEF Where

\* See OutsideStep.
LEMMA OutsideSteps ==
  ASSUME OutsideStep
  PROVE  UNCHANGED <<run, index, pc, cont, verdict, stored, reserved>> /\ Where' = Where
<1>1. UNCHANGED <<run, index, pc, cont, verdict, stored, reserved>>
  BY Zenon DEF OutsideStep, DeployWrites, RollbackWrites, SendApproval, SendControl,
     Send, TimePasses, vars, store
<1>2. QED
  BY <1>1, Zenon DEF Where

\* Every step is of one of these kinds.
LEMMA StepKinds ==
  ASSUME [Next]_vars
  PROVE  OwnStep \/ PersistAnswered \/ PersistFails \/ PersistCommits \/ OutsideStep
  BY Zenon DEF Next, WorkflowStep, OwnStep, OutsideStep

\* Every step preserves that the store is up to date outside of a persist.
LEMMA NextPersist == IInv /\ [Next]_vars => PersistInv'
<1> SUFFICES ASSUME IInv, [Next]_vars PROVE PersistInv'
  OBVIOUS
<1>1. CASE OwnStep
  BY <1>1, OwnSteps, Zenon DEF PersistInv, Snapshot, run
<1>2. CASE PersistCommits
  BY <1>2, Zenon DEF PersistCommits, IInv, PersistInv, Snapshot, run
<1>3. CASE OutsideStep
  BY <1>3, OutsideSteps, Zenon DEF IInv, PersistInv, Snapshot, run
<1>4. QED
  BY <1>1, <1>2, <1>3, PersistStep, StepKinds, Zenon

\* The three steps that cancel a run.
Cancelling == TopCancel \/ WaitingCancel \/ PausedCancel

\* The steps that stop it.
Stopping ==
    \/ Denied \/ Expire \/ AcquireRefused
    \/ TakeApproval /\ Where' = "returned"
    \/ Release /\ verdict # "SUCCEEDED"

\* CancelRun cancels the current step, when it has not begun, and those after it.
LEMMA CancelSteps ==
  ASSUME IInv, Cancelling
  PROVE  /\ index \in Steps /\ steps'[index] = "CANCELLED"
         /\ \A i \in Steps : i < index => steps'[i] = steps[i]
         /\ \A i \in Steps : i > index => steps[i] = "PENDING" /\ steps'[i] = "CANCELLED"
         /\ Where' = "returned" /\ status' = "CANCELLED"
         /\ UNCHANGED <<pausedFrom, policy, approval, index, reserved, external, accepted, approvals,
                         verdict, cancelAt>>
<1>1. OwnStep /\ pc \in {"top", "waiting", "paused"}
  BY Zenon DEF OwnStep, Cancelling, TopCancel, WaitingCancel, PausedCancel
<1>2. Where = pc
  BY <1>1, OwnSteps, Zenon
<1>3. index \in Steps
  BY <1>1, <1>2, PlanAssumption, SMTT(30) DEF Cancelling, TopCancel, WaitingCancel, PausedCancel, IInv,
     WorkflowTypes, ProgressInv, Steps
<1>4. steps[index] \in {"PENDING", "WAITING_APPROVAL"}
  BY <1>1, <1>2, <1>3, Zenon DEF IInv, PlaceInv, Before
<1>5. \A i \in Steps : i > index => steps[i] = "PENDING"
  BY <1>1, <1>2, Zenon DEF IInv, ProgressInv, Over
<1>6. steps' = [i \in Steps |-> IF i >= index /\ steps[i] \in {"PENDING", "WAITING_APPROVAL"}
                               THEN "CANCELLED" ELSE steps[i]]
  BY Zenon DEF Cancelling, TopCancel, WaitingCancel, PausedCancel, CancelRun
<1>7. /\ pc' = "persist" /\ cont' = "returned" /\ status' = "CANCELLED"
      /\ UNCHANGED <<pausedFrom, policy, approval, index, reserved, external, accepted, approvals,
                      verdict, cancelAt>>
  BY Zenon DEF Cancelling, TopCancel, WaitingCancel, PausedCancel, CancelRun,
     Persist, Receive, requests
<1>8. Where' = "returned"
  BY <1>7, Zenon DEF Where
<1>9. index \in Nat /\ \A i \in Steps : i \in Nat
  BY PlanAssumption DEF IInv, WorkflowTypes, Steps
<1>10. QED
  BY <1>3, <1>4, <1>5, <1>6, <1>7, <1>8, <1>9

\* A stopped run has a last step that did not succeed and nothing left to do.
LEMMA StopEffects ==
  ASSUME IInv, Stopping
  PROVE  /\ index \in Steps /\ steps'[index] \in FinalSteps \ {"SUCCEEDED", "CANCELLED"}
         /\ steps'[index] = IF pc = "releasing" THEN verdict ELSE "BLOCKED"
         /\ pc \in {"decided", "waiting", "acquiring", "releasing"}
         /\ \A i \in Steps : i < index => steps'[i] = steps[i]
         /\ \A i \in Steps : i > index => steps[i] = "PENDING" /\ steps'[i] = "CANCELLED"
         /\ Where' = "returned" /\ status' \in {"BLOCKED", "FAILED", "ESCALATED"}
         /\ reserved' \subseteq reserved \ (IF pc = "releasing" THEN {index} ELSE {})
         /\ \A i \in Steps : i # index => approval'[i] = approval[i]
         /\ approval'[index] # "PENDING" /\ (approval'[index] = "none" => approval[index] = "none")
         /\ UNCHANGED <<pausedFrom, policy, index, external, accepted, controls, cancelAt>>
<1>1. OwnStep /\ pc \in {"decided", "waiting", "acquiring", "releasing"}
  BY Zenon DEF OwnStep, Stopping, Denied, Expire, AcquireRefused, TakeApproval,
     Release
<1>2. Where = pc
  BY <1>1, OwnSteps, Zenon
<1>3. index \in Steps /\ \A i \in Steps : i > index => steps[i] = "PENDING"
  BY <1>1, <1>2, Zenon DEF IInv, ProgressInv, Over
<1>4. verdict # "CANCELLED" \/ pc # "releasing"
  BY <1>2, <1>3, Zenon DEF IInv, PlaceInv
<1>5. \E stepStatus \in FinalSteps \ {"SUCCEEDED", "CANCELLED"} :
      \E runStatus \in {"BLOCKED", "FAILED", "ESCALATED"} :
         /\ StopRun(stepStatus, runStatus)
         /\ stepStatus = IF pc = "releasing" THEN verdict ELSE "BLOCKED"
  <2>1. CASE Denied \/ Expire \/ AcquireRefused
    <3>1. StopRun("BLOCKED", "BLOCKED") /\ pc # "releasing"
      BY <2>1, Zenon DEF Denied, Expire, AcquireRefused
    <3>2. QED
      BY <3>1, StatusNames, Zenon
  <2>2. CASE TakeApproval /\ Where' = "returned"
    <3>1. StopRun("BLOCKED", "BLOCKED") /\ pc # "releasing"
      BY <2>2, <1>2, Zenon DEF TakeApproval, Persist, Where
    <3>2. QED
      BY <3>1, StatusNames, Zenon
  <2>3. CASE Release /\ verdict # "SUCCEEDED"
    BY <2>3, <1>4, Zenon DEF Release, IInv, WorkflowTypes
  <2>4. QED
    BY <2>1, <2>2, <2>3, Zenon DEF Stopping
<1>6. PICK stepStatus \in FinalSteps \ {"SUCCEEDED", "CANCELLED"},
           runStatus \in {"BLOCKED", "FAILED", "ESCALATED"} :
         /\ StopRun(stepStatus, runStatus)
         /\ stepStatus = IF pc = "releasing" THEN verdict ELSE "BLOCKED"
  BY <1>5, Zenon
<1>7. /\ steps'[index] = stepStatus
      /\ \A i \in Steps : i < index => steps'[i] = steps[i]
      /\ \A i \in Steps : i > index =>
            steps'[i] = IF steps[i] = "PENDING" THEN "CANCELLED" ELSE steps[i]
  BY <1>3, <1>6, StopSteps, StatusNames, Zenon DEF IInv
<1>8. Where' = "returned" /\ status' = runStatus /\ UNCHANGED <<pausedFrom, policy>>
  BY <1>6, Zenon DEF StopRun, Persist, Where
<1>9. /\ UNCHANGED <<index, external, accepted, controls, cancelAt>>
      /\ reserved' \subseteq reserved \ (IF pc = "releasing" THEN {index} ELSE {})
  BY Zenon DEF Stopping, Denied, Expire, AcquireRefused, TakeApproval, Release,
     requests, inbox
<1>10. /\ \A i \in Steps : i # index => approval'[i] = approval[i]
       /\ approval'[index] # "PENDING" /\ (approval'[index] = "none" => approval[index] = "none")
  <2>1. CASE Denied \/ AcquireRefused \/ Release
    <3>1. approval' = approval /\ pc # "waiting"
      BY <2>1, Zenon DEF Denied, AcquireRefused, Release
    <3>2. QED
      BY <1>1, <1>2, <1>3, <3>1, Zenon DEF IInv, PlaceInv, Before, Executing
  <2>2. CASE Expire \/ (TakeApproval /\ Where' = "returned")
    <3>1. \E state \in {"EXPIRED", "DENIED", "REVOKED"} : approval' = [approval EXCEPT ![index] = state]
      BY <2>2, <1>2, Zenon DEF Expire, TakeApproval, Persist, Where
    <3>2. QED
      BY <1>3, <3>1 DEF IInv, WorkflowTypes
  <2>3. QED
    BY <2>1, <2>2, Zenon DEF Stopping
<1>11. QED
  BY <1>1, <1>3, <1>6, <1>7, <1>8, <1>9, <1>10, Zenon

\* The workflow's other steps with the current step.
Planned ==
    \/ Start \/ TopPause \/ BeginStep \/ Complete
    \/ \E decision \in Decisions : EvaluateStep(decision)
    \/ Allowed \/ RequestApproval
    \/ TakeApproval /\ Where' # "returned"
    \/ WaitingPause \/ PausedResume

Executed ==
    \/ AcquireGranted \/ ActivityFails
    \/ StartDeploy \/ DeployReturns \/ DeployFails
    \/ VerifyPasses \/ VerifyFails \/ VerifyDoesNotPass
    \/ StartRollback \/ RollbackReturns \/ RollbackFails \/ RollbackVerified

Working == Planned \/ Executed

\* They concern no other step.
LEMMA WorkingEffects ==
  ASSUME IInv, Working
  PROVE  /\ \A i \in Steps : i # index =>
               /\ steps'[i] = steps[i] /\ approval'[i] = approval[i] /\ policy'[i] = policy[i]
               /\ deploy'[i] = deploy[i] /\ rollback'[i] = rollback[i]
         /\ UNCHANGED <<index, accepted, cancelAt>>
         /\ reserved' \subseteq reserved \cup {index}
         /\ Where \notin Over
         /\ Where' \notin {"start", "top", "returned", "failed"} => index \in Steps
<1>1. OwnStep
  BY Zenon DEF OwnStep, Working, Planned, Executed
<1>2. Where = pc /\ Where \notin Over
  BY <1>1, OwnSteps, Zenon
<1>3. ASSUME NEW i \in Steps, i # index
      PROVE  /\ steps'[i] = steps[i] /\ approval'[i] = approval[i] /\ policy'[i] = policy[i]
             /\ deploy'[i] = deploy[i] /\ rollback'[i] = rollback[i]
  <2> USE DEF IInv, WorkflowTypes
  <2>1. CASE \/ Start \/ TopPause \/ BeginStep \/ Complete
             \/ (\E decision \in Decisions : EvaluateStep(decision))
             \/ Allowed \/ RequestApproval \/ WaitingPause \/ PausedResume
    BY <1>3, <2>1, Zenon DEF Start, TopPause, BeginStep, Complete, EvaluateStep, Allowed,
       RequestApproval, WaitingPause, PausedResume, PauseRun, run, external
  <2>2. CASE TakeApproval /\ Where' # "returned"
    BY <1>2, <1>3, <2>2, Zenon DEF TakeApproval, StopRun, Persist, Where, run, external
  <2>3. CASE \/ AcquireGranted \/ ActivityFails \/ StartDeploy \/ DeployReturns \/ DeployFails
    BY <1>3, <2>3 DEF AcquireGranted, ActivityFails, StartDeploy, DeployReturns, DeployFails,
       Finish, run, external
  <2>4. CASE \/ VerifyPasses \/ VerifyFails \/ VerifyDoesNotPass
             \/ StartRollback \/ RollbackReturns \/ RollbackFails \/ RollbackVerified
    BY <1>3, <2>4, Zenon DEF VerifyPasses, VerifyFails, VerifyDoesNotPass, StartRollback,
       RollbackReturns, RollbackFails, RollbackVerified, Finish, run, external
  <2>5. QED
    BY <2>1, <2>2, <2>3, <2>4, Zenon DEF Working, Planned, Executed
<1>4. UNCHANGED <<index, accepted, cancelAt>>
  BY Zenon DEF Working, Planned, Executed, Start, TopPause, BeginStep, Complete, EvaluateStep, Allowed, RequestApproval,
     TakeApproval, WaitingPause, PausedResume, AcquireGranted, ActivityFails, StartDeploy,
     DeployReturns, DeployFails, VerifyPasses, VerifyFails, VerifyDoesNotPass, StartRollback,
     RollbackReturns, RollbackFails, RollbackVerified, Finish, requests
<1>5. reserved' \subseteq reserved \cup {index}
  BY Zenon DEF Working, Planned, Executed, Start, TopPause, BeginStep, Complete, EvaluateStep, Allowed, RequestApproval,
     TakeApproval, WaitingPause, PausedResume, AcquireGranted, ActivityFails, StartDeploy,
     DeployReturns, DeployFails, VerifyPasses, VerifyFails, VerifyDoesNotPass, StartRollback,
     RollbackReturns, RollbackFails, RollbackVerified, Finish
<1>6. ASSUME Where' \notin {"start", "top", "returned", "failed"} PROVE index \in Steps
  <2>1. CASE pc \notin {"start", "top"}
    BY <1>2, <2>1, Zenon DEF IInv, ProgressInv, Over
  <2>2. CASE pc = "start"
    BY <1>6, <2>2, Zenon DEF Working, Planned, Executed, Start, TopPause, BeginStep, Complete, EvaluateStep, Allowed,
       RequestApproval, TakeApproval, WaitingPause, PausedResume, AcquireGranted, ActivityFails,
       StartDeploy, DeployReturns, DeployFails, VerifyPasses, VerifyFails, VerifyDoesNotPass,
       StartRollback, RollbackReturns, RollbackFails, RollbackVerified, Persist, Where
  <2>3. CASE pc = "top"
    <3>1. index <= N \/ Complete
      BY <2>3, Zenon DEF Working, Planned, Executed, Start, TopPause, BeginStep, EvaluateStep, Allowed,
         RequestApproval, TakeApproval, WaitingPause, PausedResume, AcquireGranted, ActivityFails,
         StartDeploy, DeployReturns, DeployFails, VerifyPasses, VerifyFails, VerifyDoesNotPass,
         StartRollback, RollbackReturns, RollbackFails, RollbackVerified
    <3>2. ~ Complete
      BY <1>6, Zenon DEF Complete, Persist, Where
    <3>3. index \in 1 .. N + 1
      BY Zenon DEF IInv, WorkflowTypes
    <3>4. QED
      BY <3>1, <3>2, <3>3, PlanAssumption DEF Steps
  <2>4. QED
    BY <2>1, <2>2, <2>3, Zenon
<1>7. QED
  BY <1>2, <1>3, <1>4, <1>5, <1>6, Zenon

\* A successful step is released and the loop goes on with the next one.
LEMMA ReleaseEffects ==
  ASSUME IInv, Release, verdict = "SUCCEEDED"
  PROVE  /\ index \in Steps /\ Where = "releasing" /\ Where' = "top"
         /\ index' = index + 1
         /\ \A i \in Steps : steps'[i] = IF i = index THEN "SUCCEEDED" ELSE steps[i]
         /\ approval[index] # "PENDING"
         /\ Agrees("SUCCEEDED", deploy[index], rollback[index])
         /\ reserved' = {} /\ verdict' = "SUCCEEDED"
         /\ UNCHANGED <<status, pausedFrom, policy, approval, external, inbox, accepted, cancelAt>>
<1>1. OwnStep /\ pc = "releasing"
  BY Zenon DEF OwnStep, Release
<1>2. Where = "releasing"
  BY <1>1, OwnSteps, Zenon
<1>3. index \in Steps
  BY <1>2, Zenon DEF IInv, ProgressInv
<1>4. /\ pc' = "persist" /\ cont' = "top" /\ index' = index + 1
      /\ steps' = [steps EXCEPT ![index] = "SUCCEEDED"]
      /\ reserved' = reserved \ {index} /\ verdict' = "SUCCEEDED"
      /\ UNCHANGED <<status, pausedFrom, policy, approval, external, inbox, accepted, cancelAt>>
  BY Zenon DEF Release, Persist, requests
<1>5. approval[index] # "PENDING" /\ Agrees("SUCCEEDED", deploy[index], rollback[index])
  BY <1>2, <1>3, Zenon DEF IInv, PlaceInv, Executing
<1>6. reserved' = {}
  BY <1>4, Zenon DEF IInv, ProgressInv
<1>7. QED
  BY <1>2, <1>3, <1>4, <1>5, <1>6, Zenon DEF Where, IInv, WorkflowTypes

\* The workflow's steps are these.
LEMMA OwnKinds ==
  ASSUME OwnStep
  PROVE  Cancelling \/ Stopping \/ Working \/ (Release /\ verdict = "SUCCEEDED")
  BY Zenon DEF OwnStep, Cancelling, Stopping, Working, Planned, Executed

\* Every step preserves what is known of the steps before and after the current one.
LEMMA NextProgress == IInv /\ [Next]_vars => ProgressInv'
<1> SUFFICES ASSUME IInv, [Next]_vars PROVE ProgressInv'
  OBVIOUS
<1>1. index \in Nat /\ (\A i \in Steps : i \in Nat) /\ N \in Nat
  BY PlanAssumption, SMTT(30) DEF IInv, WorkflowTypes, Steps
<1>2. CASE Cancelling
  BY <1>1, <1>2, CancelSteps, Zenon DEF IInv, ProgressInv, Over
<1>3. CASE Stopping
  BY <1>1, <1>3, StopEffects, ZenonT(40) DEF IInv, ProgressInv, Over
<1>4. CASE Working
  BY <1>1, <1>4, WorkingEffects, ZenonT(40) DEF IInv, ProgressInv, Over
<1>5. CASE Release /\ verdict = "SUCCEEDED"
  BY <1>1, <1>5, ReleaseEffects, SMTT(30) DEF IInv, ProgressInv, Over
<1>6. CASE PersistAnswered \/ PersistFails
  BY <1>6, PersistStep, Zenon DEF IInv, ProgressInv, run
<1>7. CASE PersistCommits
  <2>1. Where' = Where /\ UNCHANGED <<run, index, reserved>>
    BY <1>7, Zenon DEF PersistCommits, Where
  <2>2. QED
    BY <2>1, Zenon DEF IInv, ProgressInv, run
<1>8. CASE OutsideStep
  BY <1>8, OutsideSteps, Zenon DEF IInv, ProgressInv, run
<1>9. QED
  BY <1>2, <1>3, <1>4, <1>5, <1>6, <1>7, <1>8, StepKinds, OwnKinds, Zenon

\* A late write of the outside agrees with whatever agreed with its beginning.
LEMMA LateWrites ==
  ASSUME NEW shown, NEW d, NEW r
  PROVE  /\ Agrees(shown, "begun", r) => Agrees(shown, "written", r)
         /\ Agrees(shown, d, "begun") => Agrees(shown, d, "written")
  BY Zenon DEF Agrees

\* What steps outside the workflow do to deployments and rollbacks.
LEMMA OutsideWrites ==
  ASSUME IInv, OutsideStep
  PROVE  \A i \in Steps :
            \/ deploy'[i] = deploy[i] /\ rollback'[i] = rollback[i]
            \/ deploy[i] = "begun" /\ deploy'[i] = "written" /\ rollback'[i] = rollback[i]
            \/ rollback[i] = "begun" /\ rollback'[i] = "written" /\ deploy'[i] = deploy[i]
<1>1. ASSUME NEW j \in Steps, DeployWrites(j)
      PROVE  \A i \in Steps :
                /\ rollback'[i] = rollback[i]
                /\ deploy'[i] = deploy[i] \/ (deploy[i] = "begun" /\ deploy'[i] = "written")
  BY <1>1, Zenon DEF DeployWrites, IInv, WorkflowTypes
<1>2. ASSUME NEW j \in Steps, RollbackWrites(j)
      PROVE  \A i \in Steps :
                /\ deploy'[i] = deploy[i]
                /\ rollback'[i] = rollback[i] \/ (rollback[i] = "begun" /\ rollback'[i] = "written")
  BY <1>2, Zenon DEF RollbackWrites, IInv, WorkflowTypes
<1>3. CASE ~ \E j \in Steps : DeployWrites(j) \/ RollbackWrites(j)
  BY <1>3, Zenon DEF OutsideStep, SendApproval, SendControl, Send, TimePasses, vars,
     external
<1>4. QED
  BY <1>1, <1>2, <1>3, Zenon

\* A decision that was accepted stays the first one.
LEMMA FirstStays ==
  ASSUME IInv, NEW request \in Requests, SendApproval(request)
  PROVE  \A i \in Steps : accepted[i] # "none" => accepted'[i] = accepted[i]
  BY DEF IInv, WorkflowTypes, SendApproval

\* The approval taken from the queue is the first one accepted for the step.
LEMMA TakesFirst ==
  ASSUME IInv, TakeApproval, Where' # "returned"
  PROVE  \/ UNCHANGED <<run, pc, cont>> /\ Head(approvals).step # index
         \/ /\ accepted[index] = "approve" /\ Where' = "acquiring"
            /\ approval' = [approval EXCEPT ![index] = "APPROVED"]
            /\ steps' = [steps EXCEPT ![index] = "PENDING"]
            /\ status' = "RUNNING" /\ UNCHANGED <<pausedFrom, policy>>
<1>1. OwnStep /\ pc = "waiting" /\ approvals # <<>>
  BY Zenon DEF OwnStep, TakeApproval
<1>2. Where = "waiting" /\ cont = "none"
  BY <1>1, OwnSteps, Zenon
<1>3. index \in Steps /\ approval[index] = "PENDING"
  BY <1>2, Zenon DEF IInv, ProgressInv, PlaceInv
<1>4. CASE Ignored(Head(approvals))
  BY <1>4, Zenon DEF TakeApproval, Ignored
<1>5. CASE ~ Ignored(Head(approvals))
  <2>1. 1 \in 1 .. Len(approvals) /\ approvals[1] = Head(approvals)
    BY <1>1, SMTT(30) DEF IInv, WorkflowTypes
  <2>2. approvals[1].step = index
    BY <1>5, <2>1, Zenon DEF Ignored
  <2>3. approvals[1].action = accepted[index]
    <3>1. \A m \in 1 .. 1 - 1 : approvals[m].step # index
      OBVIOUS
    <3>2. QED
      BY <1>3, <2>1, <2>2, <3>1 DEF IInv, QueueInv, Queued
  <2>4. /\ Head(approvals).action = "approve" /\ Where' = "acquiring"
        /\ approval' = [approval EXCEPT ![index] = "APPROVED"]
        /\ steps' = [steps EXCEPT ![index] = "PENDING"]
        /\ status' = "RUNNING" /\ UNCHANGED <<pausedFrom, policy>>
    BY <1>5, <1>2, Zenon DEF TakeApproval, StopRun, Persist, Where
  <2>5. QED
    BY <2>1, <2>3, <2>4, Zenon
<1>6. QED
  BY <1>4, <1>5, Zenon

\* While the step is executed its clearance stays; what is left to show of the
\* next place is its own.
LEMMA ExecutingPlace ==
  ASSUME IInv, Where \in Executing, Where' \in Executing \ {"acquiring"},
         UNCHANGED <<status, policy, approval, index, accepted>>,
         index \in Steps =>
            /\ Where' \in {"deploy", "deploying"} => steps'[index] = "EXECUTING"
            /\ Where' = "deploying" => deploy'[index] # "no"
            /\ Where' = "verifying" => steps'[index] = "VERIFYING"
            /\ Where' \in {"rollback", "rollingBack", "verifyingRollback"} =>
                  steps'[index] = "ROLLING_BACK"
            /\ Where' = "verifyingRollback" => rollback'[index] = "written"
            /\ Where' = "releasing" =>
                  /\ steps'[index] \in {"EXECUTING", "VERIFYING", "ROLLING_BACK"}
                  /\ Agrees(verdict', deploy'[index], rollback'[index])
                  /\ verdict' # "CANCELLED"
  PROVE  PlaceInv'
<1>1. /\ status = "RUNNING"
      /\ index \in Steps => /\ approval[index] # "PENDING"
                           /\ Cleared(policy[index], approval[index], accepted[index])
  BY Zenon DEF IInv, PlaceInv
<1>2. QED
  BY <1>1, Zenon DEF PlaceInv, Before, Executing

\* A step that is finished goes on to its release with the verdict it agrees with.
LEMMA FinishPlace ==
  ASSUME IInv, NEW v, Finish(v), v # "CANCELLED", cont = "none",
         UNCHANGED <<index, accepted, external>>,
         Where \in {"deploying", "verifying", "rollingBack", "verifyingRollback"},
         index \in Steps => Agrees(v, deploy[index], rollback[index])
  PROVE  PlaceInv'
<1>1. Where' = "releasing" /\ verdict' = v /\ UNCHANGED <<status, policy, approval, steps>>
  BY Zenon DEF Finish, Where, run
<1>2. index \in Steps => steps[index] \in {"EXECUTING", "VERIFYING", "ROLLING_BACK"}
  BY Zenon DEF IInv, PlaceInv
<1>3. UNCHANGED <<deploy, rollback>>
  BY Zenon DEF external
<1>4. QED
  BY <1>1, <1>2, <1>3, ExecutingPlace, Zenon DEF Executing

\* The places up to the reservation.
LEMMA PlannedPlace ==
  ASSUME IInv, Planned
  PROVE  PlaceInv'
<1>1. Where = pc /\ cont = "none"
  BY OwnSteps, Zenon DEF Planned, OwnStep
<1>2. UNCHANGED <<index, accepted>>
  BY WorkingEffects, Zenon DEF Working
<1>3. /\ PlaceInv
      /\ steps \in [Steps -> StepStatuses] /\ policy \in [Steps -> Decisions \cup {"none"}]
      /\ approval \in [Steps -> ApprovalStatuses] /\ deploy \in [Steps -> {"no", "begun", "written"}]
      /\ rollback \in [Steps -> {"no", "begun", "written"}]
  BY Zenon DEF IInv, WorkflowTypes
<1>4. CASE Start \/ TopPause \/ BeginStep
  <2>1. Where \in Before /\ UNCHANGED <<steps, approval, reserved>>
    BY <1>1, <1>4, Zenon DEF Start, TopPause, BeginStep, PauseRun, Before, run
  <2>2. \/ Where' \in {"top", "evaluating"} /\ status' = "RUNNING"
        \/ Where' = "paused" /\ pausedFrom' = "RUNNING"
    BY <1>1, <1>3, <1>4, Zenon DEF Start, TopPause, BeginStep, PauseRun, Persist, Where, run, PlaceInv,
       Before
  <2>3. /\ index \in Steps => steps[index] = "PENDING" /\ approval[index] = "none"
        /\ reserved = {}
    BY <1>3, <2>1, Zenon DEF PlaceInv
  <2>4. QED
    BY <1>2, <2>1, <2>2, <2>3, Zenon DEF PlaceInv, Before, Executing
<1>5. CASE Complete
  <2>1. Where = "top" /\ Where' = "returned" /\ status' = "SUCCEEDED" /\ UNCHANGED reserved
    BY <1>1, <1>5, Zenon DEF Complete, Persist, Where
  <2>2. index = N + 1 /\ index \notin Steps /\ reserved = {}
    BY <1>3, <1>5, <2>1, PlanAssumption, SMTT(30) DEF Complete, Steps, PlaceInv, Before
  <2>3. QED
    BY <1>2, <2>1, <2>2, Zenon DEF PlaceInv, Before, Executing
<1>6. CASE \E decision \in Decisions : EvaluateStep(decision)
  <2>1. /\ Where = "evaluating" /\ Where' = "decided"
        /\ UNCHANGED <<status, steps, approval, reserved>>
    BY <1>1, <1>6, Zenon DEF EvaluateStep, Persist, Where
  <2>2. QED
    BY <1>2, <1>3, <2>1, Zenon DEF PlaceInv, Before, Executing
<1>7. CASE Allowed
  <2>1. /\ Where = "decided" /\ Where' = "acquiring" /\ policy[index] = "ALLOW"
        /\ UNCHANGED <<status, steps, policy, approval, reserved>>
    BY <1>1, <1>7, Zenon DEF Allowed, Where, run
  <2>2. QED
    BY <1>2, <1>3, <2>1, Zenon DEF PlaceInv, Before, Executing, Cleared
<1>8. CASE RequestApproval
  <2>1. /\ Where = "decided" /\ Where' = "waiting" /\ status' = "WAITING_APPROVAL"
        /\ policy[index] = "REQUIRE_APPROVAL" /\ UNCHANGED <<policy, reserved>>
        /\ approval' = [approval EXCEPT ![index] = "PENDING"]
        /\ steps' = [steps EXCEPT ![index] = "WAITING_APPROVAL"]
    BY <1>1, <1>8, Zenon DEF RequestApproval, Persist, Where
  <2>2. reserved = {}
    BY <1>3, <2>1, Zenon DEF PlaceInv, Before
  <2>3. index \in Steps => approval'[index] = "PENDING" /\ steps'[index] = "WAITING_APPROVAL"
    BY <1>3, <2>1, Zenon
  <2>4. QED
    BY <1>2, <2>1, <2>2, <2>3, Zenon DEF PlaceInv, Before, Executing
<1>9. CASE TakeApproval /\ Where' # "returned"
  <2>1. Where = "waiting" /\ UNCHANGED <<reserved, external>>
    BY <1>1, <1>9, Zenon DEF TakeApproval
  <2>2. CASE UNCHANGED <<run, pc, cont>>
    <3>1. Where' = Where
      BY <2>2, Zenon DEF Where
    <3>2. QED
      BY <1>2, <1>3, <2>1, <2>2, <3>1, Zenon DEF PlaceInv, Before, Executing, run
  <2>3. CASE ~ UNCHANGED <<run, pc, cont>>
    <3>1. /\ accepted[index] = "approve" /\ Where' = "acquiring"
          /\ approval' = [approval EXCEPT ![index] = "APPROVED"]
          /\ steps' = [steps EXCEPT ![index] = "PENDING"]
          /\ status' = "RUNNING" /\ UNCHANGED policy
      BY <1>9, <2>3, TakesFirst, Zenon
    <3>2. reserved = {} /\ (index \in Steps => policy[index] = "REQUIRE_APPROVAL")
      BY <1>3, <2>1, Zenon DEF PlaceInv
    <3>3. index \in Steps => approval'[index] = "APPROVED" /\ steps'[index] = "PENDING"
      BY <1>3, <3>1, Zenon
    <3>4. QED
      BY <1>2, <2>1, <3>1, <3>2, <3>3, Zenon DEF PlaceInv, Before, Executing,
         Cleared
  <2>4. QED
    BY <2>2, <2>3, Zenon
<1>10. CASE WaitingPause
  <2>1. /\ Where = "waiting" /\ Where' = "paused" /\ pausedFrom' = status
        /\ UNCHANGED <<steps, policy, approval, reserved>>
    BY <1>1, <1>10, Zenon DEF WaitingPause, PauseRun, Persist, Where
  <2>2. QED
    BY <1>2, <1>3, <2>1, Zenon DEF PlaceInv, Before, Executing
<1>11. CASE PausedResume
  <2>1. /\ Where = "paused" /\ status' = pausedFrom
        /\ Where' = IF pausedFrom = "RUNNING" THEN "step" ELSE "waiting"
        /\ UNCHANGED <<steps, policy, approval, reserved>>
    BY <1>1, <1>11, Zenon DEF PausedResume, Persist, Where
  <2>2. QED
    BY <1>2, <1>3, <2>1, Zenon DEF PlaceInv, Before, Executing
<1>12. QED
  BY <1>4, <1>5, <1>6, <1>7, <1>8, <1>9, <1>10, <1>11, Zenon DEF Planned

\* The places from the reservation to the release.
LEMMA ExecutedPlace ==
  ASSUME IInv, Executed
  PROVE  PlaceInv'
<1>1. Where = pc /\ cont = "none"
  BY OwnSteps, Zenon DEF Executed, OwnStep
<1>2. UNCHANGED <<index, accepted>>
  BY WorkingEffects, Zenon DEF Working
<1>3. \A i \in Steps : Agrees(steps[i], deploy[i], rollback[i])
  BY Zenon DEF IInv, TruthInv
<1>4. /\ PlaceInv
      /\ steps \in [Steps -> StepStatuses] /\ policy \in [Steps -> Decisions \cup {"none"}]
      /\ approval \in [Steps -> ApprovalStatuses] /\ deploy \in [Steps -> {"no", "begun", "written"}]
      /\ rollback \in [Steps -> {"no", "begun", "written"}]
  BY Zenon DEF IInv, WorkflowTypes
<1>5. CASE ActivityFails
  <2>1. Where' = "failed"
    BY <1>1, <1>5, Zenon DEF ActivityFails, Where
  <2>2. QED
    BY <2>1, Zenon DEF PlaceInv, Before, Executing
<1>6. CASE AcquireGranted
  <2>1. /\ Where = "acquiring" /\ Where' = "deploy" /\ UNCHANGED <<status, policy, approval>>
        /\ steps' = [steps EXCEPT ![index] = "EXECUTING"]
    BY <1>1, <1>6, Zenon DEF AcquireGranted, Persist, Where
  <2>2. index \in Steps => steps'[index] = "EXECUTING"
    BY <1>4, <2>1, Zenon
  <2>3. QED
    BY <1>2, <2>1, <2>2, ExecutingPlace, Zenon DEF Executing
<1>7. CASE StartDeploy
  <2>1. /\ Where = "deploy" /\ Where' = "deploying" /\ UNCHANGED <<status, policy, approval, steps>>
        /\ deploy' = [deploy EXCEPT ![index] = "begun"]
    BY <1>1, <1>7, Zenon DEF StartDeploy, Where, run
  <2>2. index \in Steps => steps[index] = "EXECUTING" /\ deploy'[index] = "begun"
    BY <1>4, <2>1, Zenon DEF PlaceInv
  <2>3. QED
    BY <1>2, <2>1, <2>2, ExecutingPlace, Zenon DEF Executing
<1>8. CASE (DeployReturns /\ index \in Verified) \/ (VerifyDoesNotPass /\ index \in AutoRollback)
  <2>1. /\ Where \in Executing /\ UNCHANGED <<status, policy, approval>>
        /\ \/ Where' = "verifying" /\ steps' = [steps EXCEPT ![index] = "VERIFYING"]
           \/ Where' = "rollback" /\ steps' = [steps EXCEPT ![index] = "ROLLING_BACK"]
    BY <1>1, <1>8, Zenon DEF DeployReturns, VerifyDoesNotPass, Persist, Where,
       Executing
  <2>2. index \in Steps =>
           \/ Where' = "verifying" /\ steps'[index] = "VERIFYING"
           \/ Where' = "rollback" /\ steps'[index] = "ROLLING_BACK"
    BY <1>4, <2>1, Zenon
  <2>3. QED
    BY <1>2, <2>1, <2>2, ExecutingPlace, Zenon DEF Executing
<1>9. CASE StartRollback \/ RollbackReturns
  <2>1. /\ Where \in {"rollback", "rollingBack"} /\ Where' \in {"rollingBack", "verifyingRollback"}
        /\ Where' = "verifyingRollback" => rollback'[index] = "written"
        /\ UNCHANGED <<status, policy, approval, steps>>
    BY <1>1, <1>9, Zenon DEF StartRollback, RollbackReturns, Where, run, external
  <2>2. index \in Steps => steps[index] = "ROLLING_BACK"
    BY <1>4, <2>1, Zenon DEF PlaceInv
  <2>3. QED
    BY <1>2, <2>1, <2>2, ExecutingPlace, Zenon DEF Executing
<1>10. CASE (DeployReturns /\ index \notin Verified) \/ DeployFails
  <2>1. \E v \in {"SUCCEEDED", "UNKNOWN"} :
           Finish(v) /\ (v = "SUCCEEDED" => deploy[index] = "written")
    BY <1>10, Zenon DEF DeployReturns, DeployFails
  <2>2. Where = "deploying" /\ UNCHANGED external
    BY <1>1, <1>10, Zenon DEF DeployReturns, DeployFails
  <2>3. index \in Steps => /\ Agrees(steps[index], deploy[index], rollback[index])
                          /\ steps[index] = "EXECUTING" /\ deploy[index] # "no"
    BY <1>3, <1>4, <2>2, Zenon DEF PlaceInv
  <2>4. QED
    BY <1>1, <1>2, <2>1, <2>2, <2>3, FinishPlace, Zenon DEF Agrees
<1>11. CASE VerifyPasses \/ VerifyFails \/ (VerifyDoesNotPass /\ index \notin AutoRollback)
  <2>1. \E v \in {"SUCCEEDED", "BLOCKED", "ESCALATED"} : Finish(v)
    BY <1>11, Zenon DEF VerifyPasses, VerifyFails, VerifyDoesNotPass
  <2>2. Where = "verifying" /\ UNCHANGED external
    BY <1>1, <1>11, Zenon DEF VerifyPasses, VerifyFails, VerifyDoesNotPass
  <2>3. index \in Steps => /\ Agrees(steps[index], deploy[index], rollback[index])
                          /\ steps[index] = "VERIFYING"
    BY <1>3, <1>4, <2>2, Zenon DEF PlaceInv
  <2>4. QED
    BY <1>1, <1>2, <2>1, <2>2, <2>3, FinishPlace, Zenon DEF Agrees
<1>12. CASE RollbackFails \/ RollbackVerified
  <2>1. \E v \in {"ESCALATED", "ROLLED_BACK"} :
           Finish(v) /\ (v = "ROLLED_BACK" => Where = "verifyingRollback")
    BY <1>1, <1>12, Zenon DEF RollbackFails, RollbackVerified
  <2>2. Where \in {"rollingBack", "verifyingRollback"} /\ UNCHANGED external
    BY <1>1, <1>12, Zenon DEF RollbackFails, RollbackVerified
  <2>3. index \in Steps => /\ Agrees(steps[index], deploy[index], rollback[index])
                          /\ steps[index] = "ROLLING_BACK"
                          /\ (Where = "verifyingRollback" => rollback[index] = "written")
    BY <1>3, <1>4, <2>2, Zenon DEF PlaceInv
  <2>4. QED
    BY <1>1, <1>2, <2>1, <2>2, <2>3, FinishPlace, Zenon DEF Agrees
<1>13. QED
  BY <1>5, <1>6, <1>7, <1>8, <1>9, <1>10, <1>11, <1>12, Zenon DEF Executed

\* Every step leads to a place where what is said of the current step holds.
LEMMA NextPlace == IInv /\ [Next]_vars => PlaceInv'
<1> SUFFICES ASSUME IInv, [Next]_vars PROVE PlaceInv'
  OBVIOUS
<1>1. index \in Nat /\ (\A i \in Steps : i \in Nat) /\ N \in Nat
  BY PlanAssumption, SMTT(30) DEF IInv, WorkflowTypes, Steps
<1>2. CASE Cancelling
  <2>1. Where \in {"top", "waiting", "paused"}
    BY <1>2, OwnSteps, Zenon DEF OwnStep, Cancelling, TopCancel, WaitingCancel,
       PausedCancel
  <2>2. reserved = {}
    BY <2>1, Zenon DEF IInv, PlaceInv, Before
  <2>3. QED
    BY <1>2, <2>2, CancelSteps, StatusNames, Zenon DEF PlaceInv, Before, Executing
<1>3. CASE Stopping
  <2>1. OwnStep
    BY <1>3, Zenon DEF OwnStep, Stopping
  <2>2. Where = pc
    BY <2>1, OwnSteps, Zenon
  <2>3. /\ pc \in {"decided", "waiting", "acquiring", "releasing"}
        /\ reserved' \subseteq reserved \ (IF pc = "releasing" THEN {index} ELSE {})
    BY <1>3, StopEffects, Zenon
  <2>4. reserved \subseteq {index} /\ (pc # "releasing" => reserved = {})
    BY <2>2, <2>3, Zenon DEF IInv, PlaceInv, ProgressInv, Before
  <2>5. reserved' = {}
    BY <2>3, <2>4, Zenon
  <2>6. QED
    BY <1>3, <2>5, StopEffects, Zenon DEF PlaceInv, Before, Executing
<1>4. CASE Release /\ verdict = "SUCCEEDED"
  <2>1. status' = "RUNNING"
    BY <1>4, ReleaseEffects, Zenon DEF IInv, PlaceInv, Executing
  <2>2. index' \in Steps => steps'[index'] = "PENDING" /\ approval'[index'] = "none"
    BY <1>1, <1>4, ReleaseEffects, SMTT(30) DEF IInv, ProgressInv, Over
  <2>3. QED
    BY <1>4, <2>1, <2>2, ReleaseEffects, Zenon DEF PlaceInv, Before, Executing
<1>5. CASE Working
  BY <1>5, PlannedPlace, ExecutedPlace, Zenon DEF Working
<1>6. CASE PersistAnswered \/ PersistFails
  <2>1. Where' = Where /\ UNCHANGED <<run, index, verdict, external, reserved, requests>>
    BY <1>6, PersistStep, Zenon
  <2>2. QED
    BY <2>1, ZenonT(30) DEF IInv, PlaceInv, run, external, requests
<1>7. CASE PersistCommits
  <2>1. Where' = Where /\ UNCHANGED <<run, index, verdict, reserved, external, accepted>>
    BY <1>7, Zenon DEF PersistCommits, Where, requests
  <2>2. QED
    BY <2>1, ZenonT(30) DEF IInv, PlaceInv, run, external
<1>8. CASE OutsideStep
  <2>1. UNCHANGED <<run, index, verdict, reserved>> /\ Where' = Where
    BY <1>8, OutsideSteps, Zenon
  <2>2. \A i \in Steps : accepted[i] = "approve" => accepted'[i] = "approve"
    BY <1>8, FirstStays, Zenon DEF OutsideStep, DeployWrites, RollbackWrites, SendControl, TimePasses,
       vars, requests
  <2>3. \A i \in Steps :
           /\ deploy[i] # "no" => deploy'[i] # "no"
           /\ rollback[i] = "written" => rollback'[i] = "written"
           /\ Agrees(verdict, deploy[i], rollback[i]) => Agrees(verdict, deploy'[i], rollback'[i])
    BY <1>8, OutsideWrites, LateWrites, Zenon
  <2>4. QED
    BY <2>1, <2>2, <2>3, ZenonT(30) DEF IInv, PlaceInv, run, Cleared
<1>9. QED
  BY <1>2, <1>3, <1>4, <1>5, <1>6, <1>7, <1>8, StepKinds, OwnKinds, Zenon
=============================================================================
