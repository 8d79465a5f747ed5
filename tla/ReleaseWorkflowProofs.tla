------------------------ MODULE ReleaseWorkflowProofs ------------------------
(***************************************************************************)
(* The safety properties of ReleaseWorkflow for any plan, any number of    *)
(* steps and of signals.                                                   *)
(***************************************************************************)
EXTENDS ReleaseWorkflowInvariant

\* Every step preserves that the runs in memory and in the store agree with the outside.
LEMMA NextTruth == IInv /\ [Next]_vars => TruthInv'
<1> SUFFICES ASSUME IInv, [Next]_vars PROVE TruthInv'
  OBVIOUS
<1>1. index \in Nat /\ (\A i \in Steps : i \in Nat)
  BY PlanAssumption DEF IInv, WorkflowTypes, Steps
<1>2. CASE OwnStep
  <2>1. /\ Where = pc /\ stored.steps = steps /\ stored' = stored
    BY <1>2, OwnSteps DEF Snapshot
  <2>2. SUFFICES ASSUME NEW i \in Steps
                 PROVE  /\ Agrees(steps'[i], deploy'[i], rollback'[i])
                        /\ Agrees(stored.steps[i], deploy'[i], rollback'[i])
                        /\ stored.steps[i] \in FinalSteps => steps'[i] = stored.steps[i]
    BY <2>1, Zenon DEF TruthInv
  <2>3. Agrees(steps[i], deploy[i], rollback[i]) /\ stored.steps[i] = steps[i]
    BY <2>1, Zenon DEF IInv, TruthInv
  <2>4. CASE Cancelling
    <3>1. UNCHANGED <<deploy, rollback>>
      BY <2>4, CancelSteps, Zenon DEF external
    <3>2. CASE i = index
      <4>1. steps[i] \in {"PENDING", "WAITING_APPROVAL"}
        BY <2>1, <2>4, <3>2, Zenon DEF Cancelling, TopCancel, WaitingCancel, PausedCancel, IInv, PlaceInv,
           Before
      <4>2. QED
        BY <2>3, <2>4, <3>1, <3>2, <4>1, CancelSteps, Zenon DEF Agrees, FinalSteps
    <3>3. CASE i # index
      <4>1. /\ i < index => steps'[i] = steps[i]
            /\ i > index => steps[i] = "PENDING" /\ steps'[i] = "CANCELLED"
        BY <2>4, CancelSteps, Zenon
      <4>2. i < index \/ i > index
        BY <1>1, <3>3
      <4>3. CASE steps'[i] = steps[i]
        BY <2>3, <3>1, <4>3, Zenon
      <4>4. CASE steps[i] = "PENDING" /\ steps'[i] = "CANCELLED"
        BY <2>3, <3>1, <4>4, Zenon DEF Agrees, FinalSteps
      <4>5. QED
        BY <4>1, <4>2, <4>3, <4>4, Zenon
    <3>4. QED
      BY <3>2, <3>3, Zenon
  <2>5. CASE Stopping
    <3>1. UNCHANGED <<deploy, rollback>>
      BY <2>5, StopEffects, Zenon DEF external
    <3>2. CASE i = index
      <4>1. Agrees(steps'[i], deploy[i], rollback[i]) /\ steps[i] \notin FinalSteps
        <5>1. CASE pc = "releasing"
          BY <2>1, <2>5, <3>2, <5>1, StopEffects, Zenon DEF IInv, PlaceInv, FinalSteps
        <5>2. CASE pc # "releasing"
          <6>1. steps[i] \in {"PENDING", "WAITING_APPROVAL"}
            BY <2>1, <2>5, <3>2, <5>2, StopEffects, Zenon DEF IInv, PlaceInv, Before
          <6>2. QED
            BY <2>3, <2>5, <3>2, <5>2, <6>1, StopEffects, Zenon DEF Agrees, FinalSteps
        <5>3. QED
          BY <5>1, <5>2, Zenon
      <4>2. QED
        BY <2>3, <3>1, <4>1, Zenon
    <3>3. CASE i # index
      <4>1. /\ i < index => steps'[i] = steps[i]
            /\ i > index => steps[i] = "PENDING" /\ steps'[i] = "CANCELLED"
        BY <2>5, StopEffects, Zenon
      <4>2. i < index \/ i > index
        BY <1>1, <3>3
      <4>3. CASE steps'[i] = steps[i]
        BY <2>3, <3>1, <4>3, Zenon
      <4>4. CASE steps[i] = "PENDING" /\ steps'[i] = "CANCELLED"
        BY <2>3, <3>1, <4>4, Zenon DEF Agrees, FinalSteps
      <4>5. QED
        BY <4>1, <4>2, <4>3, <4>4, Zenon
    <3>4. QED
      BY <3>2, <3>3, Zenon
  <2>6. CASE Release /\ verdict = "SUCCEEDED"
    <3>1. UNCHANGED <<deploy, rollback>>
      BY <2>6, ReleaseEffects, Zenon DEF external
    <3>2. steps[index] \notin FinalSteps
      BY <2>6, ReleaseEffects, Zenon DEF IInv, PlaceInv, FinalSteps
    <3>3. QED
      BY <2>3, <2>6, <3>1, <3>2, ReleaseEffects, Zenon
  <2>7. CASE Working
    <3>1. CASE i # index
      BY <2>3, <2>7, <3>1, WorkingEffects, Zenon
    <3>2. CASE i = index
      <4> USE <2>1, <2>3, <2>7, <3>2 DEF IInv, WorkflowTypes, PlaceInv
      <4>1. CASE \/ Start \/ TopPause \/ BeginStep \/ Complete
                 \/ (\E decision \in Decisions : EvaluateStep(decision))
                 \/ Allowed \/ WaitingPause \/ PausedResume \/ ActivityFails
        BY <4>1, Zenon DEF Start, TopPause, BeginStep, Complete, EvaluateStep, Allowed, WaitingPause,
           PausedResume, ActivityFails, PauseRun, run, external
      <4>2. CASE RequestApproval
        BY <4>2, Zenon DEF RequestApproval, Before, Agrees, external, FinalSteps
      <4>3. CASE TakeApproval /\ Where' # "returned"
        <5>1. pc = "waiting" /\ UNCHANGED external
          BY <4>3, Zenon DEF TakeApproval
        <5>2. steps' = steps \/ steps' = [steps EXCEPT ![index] = "PENDING"]
          BY <4>3, TakesFirst, Zenon DEF run
        <5>3. QED
          BY <5>1, <5>2 DEF Agrees, external, FinalSteps
      <4>4. CASE AcquireGranted
        BY <4>4, Zenon DEF AcquireGranted, Agrees, external, FinalSteps
      <4>5. CASE StartDeploy
        BY <4>5, Zenon DEF StartDeploy, Agrees, run
      <4>6. CASE DeployReturns
        BY <4>6 DEF DeployReturns, Finish, Agrees, run, external, FinalSteps
      <4>7. CASE \/ DeployFails \/ VerifyPasses \/ VerifyFails \/ RollbackReturns
                 \/ RollbackFails \/ RollbackVerified
        BY <4>7, Zenon DEF DeployFails, VerifyPasses, VerifyFails, RollbackReturns, RollbackFails,
           RollbackVerified, Finish, run, external
      <4>8. CASE VerifyDoesNotPass
        BY <4>8 DEF VerifyDoesNotPass, Finish, Agrees, run, external, FinalSteps
      <4>9. CASE StartRollback
        BY <4>9, Zenon DEF StartRollback, Agrees, run
      <4>10. QED
        BY <4>1, <4>2, <4>3, <4>4, <4>5, <4>6, <4>7, <4>8, <4>9, Zenon DEF Working, Planned, Executed
    <3>3. QED
      BY <3>1, <3>2, Zenon
  <2>8. QED
    BY <1>2, <2>4, <2>5, <2>6, <2>7, OwnKinds, Zenon
<1>3. CASE PersistAnswered \/ PersistFails
  BY <1>3, PersistStep, Zenon DEF IInv, TruthInv, run, external
<1>4. CASE PersistCommits
  <2>1. stored'.steps = steps /\ UNCHANGED <<run, external>>
    BY <1>4, Zenon DEF PersistCommits, Snapshot
  <2>2. QED
    BY <2>1, Zenon DEF IInv, TruthInv, run, external
<1>5. CASE OutsideStep
  <2>1. UNCHANGED <<steps, stored>>
    BY <1>5, OutsideSteps, Zenon DEF run
  <2>2. QED
    BY <1>5, <2>1, OutsideWrites, LateWrites, Zenon DEF IInv, TruthInv
<1>6. QED
  BY <1>2, <1>3, <1>4, <1>5, StepKinds, Zenon

\* What the workflow's steps do to deployments, authorisations and controls.
LEMMA OwnEffects ==
  ASSUME IInv, OwnStep
  PROVE  /\ UNCHANGED <<accepted, cancelAt>>
         /\ Cancelling \/ controls'["cancel"] = controls["cancel"]
         /\ \A i \in Steps :
               /\ deploy'[i] = deploy[i] \/ (pc = "deploy" /\ i = index)
               /\ deploy[i] # "no" => policy'[i] = policy[i] /\ approval'[i] = approval[i]
         /\ pc = "deploy" => UNCHANGED <<policy, approval>>
<1>1. UNCHANGED <<accepted, cancelAt>>
  BY CancelSteps, StopEffects, WorkingEffects, ReleaseEffects, OwnKinds, Zenon
<1>2. Cancelling \/ controls'["cancel"] = controls["cancel"]
  <2>1. CASE TopPause \/ WaitingPause \/ PausedResume
    BY <2>1, Zenon DEF TopPause, WaitingPause, PausedResume, Receive, IInv,
       WorkflowTypes
  <2>2. CASE ~ (TopPause \/ WaitingPause \/ PausedResume \/ Cancelling)
    BY <2>2, Zenon DEF OwnStep, Cancelling, Start, BeginStep, Complete, EvaluateStep, Denied, Allowed,
       RequestApproval, TakeApproval, Expire, AcquireGranted, AcquireRefused, Release,
       ActivityFails, StartDeploy, DeployReturns, DeployFails, VerifyPasses, VerifyFails,
       VerifyDoesNotPass, StartRollback, RollbackReturns, RollbackFails, RollbackVerified, Finish,
       inbox
  <2>3. QED
    BY <2>1, <2>2, Zenon
<1>3. \/ pc = "deploy" /\ deploy' = [deploy EXCEPT ![index] = "begun"] /\ UNCHANGED run
      \/ pc # "deploy" /\ deploy' = deploy
  BY Zenon DEF OwnStep, external, Start, TopCancel, TopPause, BeginStep, Complete, EvaluateStep, Denied,
     Allowed, RequestApproval, TakeApproval, WaitingPause, WaitingCancel, Expire, PausedResume,
     PausedCancel, AcquireGranted, AcquireRefused, Release, ActivityFails, StartDeploy,
     DeployReturns, DeployFails, VerifyPasses, VerifyFails, VerifyDoesNotPass, StartRollback,
     RollbackReturns, RollbackFails, RollbackVerified
<1>4. ASSUME NEW i \in Steps, deploy[i] # "no"
      PROVE  policy'[i] = policy[i] /\ approval'[i] = approval[i]
  <2>1. Where = pc
    BY OwnSteps, Zenon
  <2>2. steps[i] \notin {"PENDING", "WAITING_APPROVAL"}
    BY <1>4, Zenon DEF IInv, TruthInv, Agrees
  <2>3. i = index => pc \notin {"evaluating", "decided", "waiting"}
    BY <2>1, <2>2, Zenon DEF IInv, PlaceInv, Before
  <2>4. CASE i # index
    BY <1>4, <2>4, CancelSteps, StopEffects, WorkingEffects, ReleaseEffects, OwnKinds, Zenon
  <2>5. CASE pc \notin {"evaluating", "decided", "waiting"}
    BY <2>5, Zenon DEF OwnStep, run, Start, TopCancel, TopPause, BeginStep, Complete, EvaluateStep, Denied,
       Allowed, RequestApproval, TakeApproval, WaitingPause, WaitingCancel, Expire, PausedResume,
       PausedCancel, AcquireGranted, AcquireRefused, Release, ActivityFails, StartDeploy,
       DeployReturns, DeployFails, VerifyPasses, VerifyFails, VerifyDoesNotPass, StartRollback,
       RollbackReturns, RollbackFails, RollbackVerified, Finish, StopRun, CancelRun, PauseRun
  <2>6. QED
    BY <2>3, <2>4, <2>5, Zenon
<1>5. QED
  BY <1>1, <1>2, <1>3, <1>4 DEF IInv, WorkflowTypes, run

\* Nothing is deployed beyond the current step.
LEMMA DeployedUpToIndex ==
  ASSUME IInv, NEW i \in Steps, deploy[i] # "no"
  PROVE  i <= index /\ \A d \in Steps : d < i => steps[d] = "SUCCEEDED"
<1>1. index \in Nat /\ (\A j \in Steps : j \in Nat)
  BY PlanAssumption DEF IInv, WorkflowTypes, Steps
<1>2. steps[i] \notin {"PENDING", "CANCELLED"}
  BY Zenon DEF IInv, TruthInv, Agrees
<1>3. i <= index
  BY <1>1, <1>2 DEF IInv, ProgressInv
<1>4. QED
  BY <1>1, <1>3 DEF IInv, ProgressInv

\* Every step preserves that what is deployed was cleared.
LEMMA NextCleared == IInv /\ [Next]_vars => ClearedInv'
<1> SUFFICES ASSUME IInv, [Next]_vars PROVE ClearedInv'
  OBVIOUS
<1>1. CASE OwnStep
  <2> SUFFICES ASSUME NEW i \in Steps, deploy'[i] # "no"
               PROVE  /\ Cleared(policy'[i], approval'[i], accepted'[i])
                      /\ Cleared(stored'.policy[i], stored'.approval[i], accepted'[i])
                      /\ \A d \in Steps : d < i => stored'.steps[d] = "SUCCEEDED"
    BY Zenon DEF ClearedInv
  <2>1. Where = pc /\ stored = Snapshot /\ stored' = stored /\ accepted' = accepted
    BY <1>1, OwnSteps, OwnEffects, Zenon
  <2>2. CASE deploy[i] # "no"
    <3>1. policy'[i] = policy[i] /\ approval'[i] = approval[i]
      BY <1>1, <2>2, OwnEffects, Zenon
    <3>2. QED
      BY <2>1, <2>2, <3>1, Zenon DEF IInv, ClearedInv
  <2>3. CASE deploy[i] = "no"
    <3>1. pc = "deploy" /\ i = index /\ UNCHANGED <<policy, approval>>
      BY <1>1, <2>3, OwnEffects, Zenon
    <3>2. Cleared(policy[i], approval[i], accepted[i])
      BY <2>1, <3>1, Zenon DEF IInv, PlaceInv, Executing
    <3>3. \A d \in Steps : d < i => steps[d] = "SUCCEEDED"
      BY <3>1, Zenon DEF IInv, ProgressInv
    <3>4. QED
      BY <2>1, <3>1, <3>2, <3>3, Zenon DEF Snapshot
  <2>4. QED
    BY <2>2, <2>3, Zenon
<1>2. CASE PersistAnswered \/ PersistFails
  BY <1>2, PersistStep, Zenon DEF IInv, ClearedInv, run, external, requests
<1>3. CASE PersistCommits
  <2>1. stored' = Snapshot /\ UNCHANGED <<policy, approval, accepted, deploy>>
    BY <1>3, Zenon DEF PersistCommits, run, external, requests
  <2>2. QED
    BY <2>1, DeployedUpToIndex, Zenon DEF IInv, ClearedInv, Snapshot
<1>4. CASE OutsideStep
  <2>1. UNCHANGED <<policy, approval, stored>>
    BY <1>4, OutsideSteps, Zenon DEF run
  <2>2. \A i \in Steps : accepted[i] = "approve" => accepted'[i] = "approve"
    BY <1>4, FirstStays, Zenon DEF OutsideStep, DeployWrites, RollbackWrites,
       SendControl, TimePasses, vars, requests
  <2>3. \A i \in Steps : deploy'[i] # "no" => deploy[i] # "no"
    BY <1>4, OutsideWrites, Zenon
  <2>4. QED
    BY <2>1, <2>2, <2>3 DEF IInv, ClearedInv, Cleared
<1>5. QED
  BY <1>1, <1>2, <1>3, <1>4, StepKinds, Zenon

\* The workflow takes a signal off the queue: what it says of a pending approval
\* does not change, unless the signal was for it.
LEMMA TakeKeepsQueue ==
  ASSUME IInv, TakeApproval
  PROVE  QueueInv'
<1> DEFINE signal == Head(approvals)
<1>1. OwnStep /\ approvals \in Seq(Requests) /\ approvals # <<>>
  BY Zenon DEF OwnStep, TakeApproval, IInv, WorkflowTypes
<1>2. Where = "waiting" /\ stored.approval = approval /\ stored' = stored
  BY <1>1, OwnSteps DEF TakeApproval, Snapshot
<1>3. index \in Steps
  BY <1>2, Zenon DEF IInv, ProgressInv
<1>4. /\ accepted' = accepted /\ Len(approvals') = Len(approvals) - 1
      /\ \A n \in 1 .. Len(approvals') : approvals'[n] = approvals[n + 1]
      /\ Len(approvals) \in Nat /\ approvals[1] = signal
  BY <1>1 DEF TakeApproval, requests
<1>5. \/ approval' = approval /\ signal.step # index
      \/ \E state \in {"APPROVED", "DENIED", "REVOKED"} : approval' = [approval EXCEPT ![index] = state]
  BY Zenon DEF TakeApproval, Ignored, run
<1>6. \A i \in Steps :
         /\ approval'[i] = "PENDING" => approval[i] = "PENDING" /\ signal.step # i
         /\ approval'[i] = "none" <=> approval[i] = "none"
  <2>1. \A i \in Steps : approval[i] = "PENDING" => i = index
    BY Zenon DEF IInv, ProgressInv
  <2>2. approval[index] = "PENDING"
    BY <1>2, <1>3, Zenon DEF IInv, PlaceInv
  <2>3. QED
    BY <1>5, <2>1, <2>2 DEF IInv, WorkflowTypes
<1>7. ASSUME NEW i \in Steps, approval'[i] = "PENDING"
      PROVE  /\ \A n \in 1 .. Len(approvals') :
                   approvals'[n].step = i /\ (\A m \in 1 .. n - 1 : approvals'[m].step # i)
                      => approvals'[n].action = accepted[i]
             /\ accepted[i] # "none" => \E n \in 1 .. Len(approvals') : approvals'[n].step = i
  <2>1. approval[i] = "PENDING" /\ approvals[1].step # i
    BY <1>4, <1>6, <1>7, Zenon
  <2>2. ASSUME NEW n \in 1 .. Len(approvals'), approvals'[n].step = i,
               \A m \in 1 .. n - 1 : approvals'[m].step # i
        PROVE  approvals'[n].action = accepted[i]
    <3>1. n + 1 \in 1 .. Len(approvals) /\ approvals[n + 1].step = i
      BY <1>4, <2>2
    <3>2. ASSUME NEW m \in 1 .. (n + 1) - 1 PROVE approvals[m].step # i
      <4>1. CASE m = 1
        BY <2>1, <4>1, Zenon
      <4>2. CASE m # 1
        <5>1. m - 1 \in 1 .. n - 1 /\ m - 1 \in 1 .. Len(approvals') /\ (m - 1) + 1 = m
          BY <1>4, <4>2
        <5>2. QED
          BY <1>4, <2>2, <5>1, Zenon
      <4>3. QED
        BY <4>1, <4>2, Zenon
    <3>3. approvals[n + 1].action = accepted[i]
      BY <2>1, <3>1, <3>2 DEF IInv, QueueInv, Queued
    <3>4. QED
      BY <1>4, <3>3, Zenon
  <2>3. ASSUME accepted[i] # "none" PROVE \E n \in 1 .. Len(approvals') : approvals'[n].step = i
    <3>1. PICK n \in 1 .. Len(approvals) : approvals[n].step = i
      BY <2>1, <2>3, Zenon DEF IInv, QueueInv, Queued
    <3>2. n - 1 \in 1 .. Len(approvals') /\ (n - 1) + 1 = n
      BY <1>4, <2>1, <3>1
    <3>3. QED
      BY <1>4, <3>1, <3>2, Zenon
  <2>4. QED
    BY <2>2, <2>3, Zenon
<1>8. \A i \in Steps : accepted[i] = "none" => \A n \in 1 .. Len(approvals') : approvals'[n].step # i
  BY <1>4 DEF IInv, QueueInv, Queued
<1>9. ASSUME NEW i \in Steps
      PROVE  /\ stored'.approval[i] # "none" => approval'[i] # "none"
             /\ Queued(i, approval'[i], accepted'[i], approvals')
  <2>1. stored'.approval[i] # "none" => approval'[i] # "none"
    BY <1>2, <1>6, Zenon
  <2>2. approval'[i] = "none" => accepted'[i] = "none"
    BY <1>4, <1>6, Zenon DEF IInv, QueueInv, Queued
  <2>3. QED
    BY <1>4, <1>7, <1>8, <2>1, <2>2, Zenon DEF Queued
<1>10. QED
  BY <1>9, Zenon DEF QueueInv

\* The application sends a decision on an approval it sees pending in the store.
LEMMA SendKeepsQueue ==
  ASSUME IInv, NEW request \in Requests, SendApproval(request)
  PROVE  QueueInv'
<1> DEFINE s == request.step
<1>1. /\ s \in Steps /\ request.action \in {"approve", "deny", "revoke"}
      /\ approvals \in Seq(Requests) /\ stored.approval[s] = "PENDING"
      /\ UNCHANGED <<approval, stored>>
  BY Zenon DEF SendApproval, Send, Requests, IInv, WorkflowTypes, run, store
<1>2. /\ Len(approvals') = Len(approvals) + 1 /\ Len(approvals) \in Nat
      /\ approvals'[Len(approvals) + 1] = request
      /\ \A n \in 1 .. Len(approvals) : approvals'[n] = approvals[n]
  BY <1>1 DEF SendApproval
<1>3. /\ \A i \in Steps : i # s => accepted'[i] = accepted[i]
      /\ accepted'[s] = IF accepted[s] = "none" THEN request.action ELSE accepted[s]
  BY <1>1 DEF SendApproval, IInv, WorkflowTypes
<1>4. approval[s] # "none"
  BY <1>1, Zenon DEF IInv, QueueInv, Queued
<1>5. ASSUME NEW i \in Steps, accepted'[i] = "none", NEW n \in 1 .. Len(approvals')
      PROVE  approvals'[n].step # i
  <2>1. i # s /\ accepted[i] = "none"
    BY <1>1, <1>3, <1>5, Zenon
  <2>2. CASE n = Len(approvals) + 1
    BY <1>2, <2>1, <2>2, Zenon
  <2>3. CASE n # Len(approvals) + 1
    <3>1. n \in 1 .. Len(approvals)
      BY <1>2, <2>3
    <3>2. QED
      BY <1>2, <2>1, <3>1 DEF IInv, QueueInv, Queued
  <2>4. QED
    BY <2>2, <2>3, Zenon
<1>6. ASSUME NEW i \in Steps, approval[i] = "PENDING"
      PROVE  /\ \A n \in 1 .. Len(approvals') :
                   approvals'[n].step = i /\ (\A m \in 1 .. n - 1 : approvals'[m].step # i)
                      => approvals'[n].action = accepted'[i]
             /\ accepted'[i] # "none" => \E n \in 1 .. Len(approvals') : approvals'[n].step = i
  <2>1. ASSUME NEW n \in 1 .. Len(approvals'), approvals'[n].step = i,
               \A m \in 1 .. n - 1 : approvals'[m].step # i
        PROVE  approvals'[n].action = accepted'[i]
    <3>1. CASE n = Len(approvals) + 1
      <4>1. i = s /\ \A m \in 1 .. Len(approvals) : approvals[m].step # i
        BY <1>2, <2>1, <3>1
      <4>2. accepted[i] = "none"
        BY <1>6, <4>1, Zenon DEF IInv, QueueInv, Queued
      <4>3. QED
        BY <1>2, <1>3, <3>1, <4>1, <4>2, Zenon
    <3>2. CASE n # Len(approvals) + 1
      <4>1. n \in 1 .. Len(approvals) /\ \A m \in 1 .. n - 1 : m \in 1 .. Len(approvals)
        BY <1>2, <3>2
      <4>2. approvals[n].step = i /\ \A m \in 1 .. n - 1 : approvals[m].step # i
        BY <1>2, <2>1, <4>1, Zenon
      <4>3. approvals[n].action = accepted[i] /\ accepted[i] # "none"
        BY <1>6, <4>1, <4>2 DEF IInv, QueueInv, Queued
      <4>4. QED
        BY <1>2, <1>3, <4>1, <4>3, Zenon
    <3>3. QED
      BY <3>1, <3>2, Zenon
  <2>2. ASSUME accepted'[i] # "none" PROVE \E n \in 1 .. Len(approvals') : approvals'[n].step = i
    <3>1. CASE i = s
      BY <1>2, <3>1
    <3>2. CASE i # s
      <4>1. PICK n \in 1 .. Len(approvals) : approvals[n].step = i
        BY <1>3, <1>6, <2>2, <3>2, Zenon DEF IInv, QueueInv, Queued
      <4>2. QED
        BY <1>2, <4>1
    <3>3. QED
      BY <3>1, <3>2, Zenon
  <2>3. QED
    BY <2>1, <2>2, Zenon
<1>7. \A i \in Steps : approval[i] = "none" => accepted'[i] = "none"
  BY <1>3, <1>4, Zenon DEF IInv, QueueInv, Queued
<1>8. QED
  BY <1>1, <1>5, <1>6, <1>7, Zenon DEF IInv, QueueInv, Queued

\* Every step preserves what the queue of signals says.
LEMMA NextQueue == IInv /\ [Next]_vars => QueueInv'
<1> SUFFICES ASSUME IInv, [Next]_vars PROVE QueueInv'
  OBVIOUS
<1>1. CASE OwnStep /\ ~ TakeApproval
  <2>1. stored.approval = approval /\ stored' = stored /\ Where = pc
    BY <1>1, OwnSteps DEF Snapshot
  <2>2. UNCHANGED <<approvals, accepted>>
    BY <1>1, Zenon DEF OwnStep, inbox, requests, Start, TopCancel, TopPause, BeginStep, Complete,
       EvaluateStep, Denied, Allowed, RequestApproval, WaitingPause, WaitingCancel, Expire,
       PausedResume, PausedCancel, AcquireGranted, AcquireRefused, Release, ActivityFails,
       StartDeploy, DeployReturns, DeployFails, VerifyPasses, VerifyFails, VerifyDoesNotPass,
       StartRollback, RollbackReturns, RollbackFails, RollbackVerified, Finish, Receive
  <2>3. CASE RequestApproval
    <3>1. /\ index \in Steps => approval[index] = "none"
          /\ approval' = [approval EXCEPT ![index] = "PENDING"]
      BY <2>1, <2>3, Zenon DEF RequestApproval, IInv, PlaceInv, Before
    <3>2. \A i \in Steps : approval'[i] = IF i = index THEN "PENDING" ELSE approval[i]
      BY <3>1, Zenon DEF IInv, WorkflowTypes
    <3>3. index \in Steps =>
             accepted[index] = "none" /\ \A n \in 1 .. Len(approvals) : approvals[n].step # index
      BY <3>1, Zenon DEF IInv, QueueInv, Queued
    <3>4. QED
      BY <2>1, <2>2, <3>2, <3>3 DEF IInv, QueueInv, Queued
  <2>4. CASE Expire
    <3>1. approval' = [approval EXCEPT ![index] = "EXPIRED"]
      BY <2>4, Zenon DEF Expire
    <3>2. approval[index] = "PENDING"
      BY <2>1, <2>4, Zenon DEF Expire, IInv, ProgressInv, PlaceInv
    <3>3. \A i \in Steps : approval'[i] = IF i = index THEN "EXPIRED" ELSE approval[i]
      BY <3>1, Zenon DEF IInv, WorkflowTypes
    <3>4. \A i \in Steps : approval[i] = "none" <=> approval'[i] = "none"
      BY <3>2, <3>3, Zenon
    <3>5. QED
      BY <2>1, <2>2, <3>3, <3>4 DEF IInv, QueueInv, Queued
  <2>5. CASE ~ (RequestApproval \/ Expire)
    <3>1. approval' = approval
      BY <1>1, <2>5, Zenon DEF OwnStep, run, Start, TopCancel, TopPause, BeginStep, Complete,
         EvaluateStep, Denied, Allowed, WaitingPause, WaitingCancel, PausedResume, PausedCancel,
         AcquireGranted, AcquireRefused, Release, ActivityFails, StartDeploy, DeployReturns,
         DeployFails, VerifyPasses, VerifyFails, VerifyDoesNotPass, StartRollback,
         RollbackReturns, RollbackFails, RollbackVerified, Finish, CancelRun, PauseRun
    <3>2. QED
      BY <2>1, <2>2, <3>1, Zenon DEF IInv, QueueInv
  <2>6. QED
    BY <2>3, <2>4, <2>5, Zenon
<1>2. CASE TakeApproval
  BY <1>2, TakeKeepsQueue, Zenon
<1>3. CASE PersistAnswered \/ PersistFails
  BY <1>3, PersistStep, Zenon DEF IInv, QueueInv, run, inbox, requests
<1>4. CASE PersistCommits
  <2>1. stored'.approval = approval /\ UNCHANGED <<approval, approvals, accepted>>
    BY <1>4, Zenon DEF PersistCommits, Snapshot, run, inbox, requests
  <2>2. \A i \in Steps : stored'.approval[i] # "none" => approval'[i] # "none"
    BY <2>1, Zenon
  <2>3. QED
    BY <2>1, <2>2, Zenon DEF IInv, QueueInv
<1>5. CASE \E request \in Requests : SendApproval(request)
  BY <1>5, SendKeepsQueue, Zenon
<1>6. CASE OutsideStep /\ ~ \E request \in Requests : SendApproval(request)
  <2>1. UNCHANGED <<approval, stored, approvals, accepted>>
    BY <1>6, OutsideSteps, Zenon DEF OutsideStep, DeployWrites, RollbackWrites, SendControl, TimePasses,
       vars, run, inbox, requests
  <2>2. QED
    BY <2>1, Zenon DEF IInv, QueueInv
<1>7. QED
  BY <1>1, <1>2, <1>3, <1>4, <1>5, <1>6, StepKinds, Zenon

\* Every step preserves that an accepted cancel ends the run before another step.
LEMMA NextCancel == IInv /\ [Next]_vars => CancelInv'
<1> SUFFICES ASSUME IInv, [Next]_vars PROVE CancelInv'
  OBVIOUS
<1>1. /\ index \in Nat /\ (\A i \in Steps : i \in Nat) /\ cancelAt \in Nat
      /\ controls["cancel"] \in Nat
  BY PlanAssumption DEF IInv, WorkflowTypes, Steps
<1>2. CASE OwnStep
  <2> SUFFICES ASSUME cancelAt' > 0
               PROVE  /\ Where' \notin Over => controls'["cancel"] > 0
                      /\ cancelAt' <= index'
                      /\ cancelAt' < index' => Where' \in {"top"} \cup Over
                      /\ \A i \in Steps : deploy'[i] # "no" => i <= cancelAt'
    BY Zenon DEF CancelInv
  <2>1. Where = pc /\ Where \notin Over /\ cancelAt' = cancelAt
    BY <1>2, OwnSteps, OwnEffects, Zenon
  <2>2. /\ controls["cancel"] > 0 /\ cancelAt <= index
        /\ cancelAt < index => Where = "top"
        /\ \A i \in Steps : deploy[i] # "no" => i <= cancelAt
    BY <2>1, Zenon DEF IInv, CancelInv, Over
  <2>3. \A i \in Steps : deploy'[i] # "no" => i <= cancelAt
    <3>1. pc = "deploy" => cancelAt = index
      BY <1>1, <2>1, <2>2
    <3>2. QED
      BY <1>1, <1>2, <2>2, <3>1, OwnEffects, Zenon
  <2>4. CASE Cancelling
    BY <2>1, <2>2, <2>3, <2>4, CancelSteps, Zenon DEF Over
  <2>5. CASE Stopping
    BY <2>1, <2>2, <2>3, <2>5, StopEffects, Zenon DEF Over
  <2>6. CASE Release /\ verdict = "SUCCEEDED"
    <3>1. controls' = controls
      BY <2>6, ReleaseEffects, Zenon DEF inbox
    <3>2. QED
      BY <1>1, <2>1, <2>2, <2>3, <2>6, <3>1, ReleaseEffects DEF Over
  <2>7. CASE Working
    <3>1. index' = index /\ (controls'["cancel"] = controls["cancel"] \/ Where' = "returned")
      BY <1>2, <2>7, WorkingEffects, OwnEffects, CancelSteps, Zenon
    <3>2. cancelAt < index => Where' = "returned"
      <4>1. ASSUME pc = "top" PROVE Complete
        <5>1. ~ TopPause /\ ~ BeginStep
          BY <2>2, <4>1 DEF TopPause, BeginStep
        <5>2. QED
          BY <2>7, <4>1, <5>1, Zenon DEF Working, Planned, Executed, Start, EvaluateStep, Allowed, RequestApproval,
             TakeApproval, WaitingPause, PausedResume, AcquireGranted, ActivityFails, StartDeploy,
             DeployReturns, DeployFails, VerifyPasses, VerifyFails, VerifyDoesNotPass,
             StartRollback, RollbackReturns, RollbackFails, RollbackVerified
      <4>2. QED
        BY <2>1, <2>2, <4>1, Zenon DEF Complete, Persist, Where
    <3>3. QED
      BY <2>1, <2>2, <2>3, <3>1, <3>2, Zenon DEF Over
  <2>8. QED
    BY <1>2, <2>4, <2>5, <2>6, <2>7, OwnKinds, Zenon
<1>3. CASE PersistAnswered \/ PersistFails
  BY <1>3, PersistStep, Zenon DEF IInv, CancelInv, external, inbox, requests
<1>4. CASE PersistCommits
  <2>1. Where' = Where /\ UNCHANGED <<index, cancelAt, controls, deploy>>
    BY <1>4, Zenon DEF PersistCommits, Where, external, inbox, requests
  <2>2. QED
    BY <2>1, Zenon DEF IInv, CancelInv
<1>5. CASE SendControl("cancel")
  <2>1. /\ controls' = [controls EXCEPT !["cancel"] = @ + 1] /\ deploy' = deploy
        /\ cancelAt' = IF cancelAt = 0 THEN index ELSE cancelAt
    BY <1>5, Zenon DEF SendControl, Send, external
  <2>2. controls'["cancel"] > 0
    BY <1>1, <2>1 DEF IInv, WorkflowTypes
  <2>3. UNCHANGED index /\ Where' = Where
    BY <1>5, OutsideSteps, Zenon DEF OutsideStep
  <2>4. QED
    BY <1>1, <2>1, <2>2, <2>3, DeployedUpToIndex DEF IInv, CancelInv
<1>6. CASE OutsideStep /\ ~ SendControl("cancel")
  <2>1. UNCHANGED <<index, cancelAt>> /\ Where' = Where /\ controls'["cancel"] = controls["cancel"]
    <3>1. ASSUME NEW channel \in {"pause", "resume"}, SendControl(channel)
          PROVE  cancelAt' = cancelAt /\ controls'["cancel"] = controls["cancel"]
      BY <3>1, Zenon DEF SendControl, IInv, WorkflowTypes
    <3>2. ASSUME \/ \E i \in Steps : DeployWrites(i) \/ RollbackWrites(i)
                 \/ \E request \in Requests : SendApproval(request)
                 \/ TimePasses \/ UNCHANGED vars
          PROVE  cancelAt' = cancelAt /\ controls'["cancel"] = controls["cancel"]
      <4>1. ASSUME NEW i \in Steps, DeployWrites(i) \/ RollbackWrites(i)
            PROVE  UNCHANGED <<controls, cancelAt>>
        BY <4>1, Zenon DEF DeployWrites, RollbackWrites, inbox, requests
      <4>2. ASSUME NEW request \in Requests, SendApproval(request)
            PROVE  UNCHANGED <<controls, cancelAt>>
        BY <4>2, Zenon DEF SendApproval
      <4>3. ASSUME TimePasses \/ UNCHANGED vars PROVE UNCHANGED <<controls, cancelAt>>
        BY <4>3, Zenon DEF TimePasses, vars, inbox, requests
      <4>4. UNCHANGED <<controls, cancelAt>>
        BY <3>2, <4>1, <4>2, <4>3, Zenon
      <4>5. QED
        BY <4>4, Zenon
    <3>3. cancelAt' = cancelAt /\ controls'["cancel"] = controls["cancel"]
      BY <1>6, <3>1, <3>2, Zenon DEF OutsideStep
    <3>4. QED
      BY <1>6, <3>3, OutsideSteps, Zenon
  <2>2. \A i \in Steps : deploy'[i] # "no" => deploy[i] # "no"
    BY <1>6, OutsideWrites, Zenon
  <2>3. QED
    BY <2>1, <2>2, Zenon DEF IInv, CancelInv
<1>7. QED
  BY <1>2, <1>3, <1>4, <1>5, <1>6, StepKinds, Zenon

\* The invariant is inductive.
LEMMA NextIInv == IInv /\ [Next]_vars => IInv'
  BY NextTypes, NextPersist, NextProgress, NextPlace, NextTruth, NextCleared,
     NextQueue, NextCancel, Zenon DEF IInv

-----------------------------------------------------------------------------

\* Whatever is deployed, the store already held the policy's permission or the
\* approval, given first of all decisions on it.
THEOREM DeploysAuthorised == Spec => []Authorised
<1>1. IInv => Authorised
  BY Zenon DEF IInv, ClearedInv, Cleared, Authorised
<1>2. QED
  BY <1>1, InitIInv, NextIInv, PTL DEF Spec

\* Steps are deployed in the order of their dependencies, as the store shows them.
THEOREM DeploysInOrder == Spec => []DependencyOrder
<1>1. ASSUME IInv PROVE DependencyOrder
  <2>1. \A i \in Steps : \A d \in Deps[i] : d \in Steps /\ d < i
    BY PlanAssumption, Zenon
  <2>2. pc = "step" \/ (pc = "top" /\ index <= N) => index \in Steps
    BY <1>1, AtWork, PlanAssumption DEF IInv, WorkflowTypes, ProgressInv, Steps
  <2>3. \A i \in Steps : deploy[i] # "no" => \A d \in Deps[i] : stored.steps[d] = "SUCCEEDED"
    BY <1>1, <2>1, Zenon DEF IInv, ClearedInv
  <2>4. QED
    BY <1>1, <2>1, <2>2, <2>3, Zenon DEF IInv, ProgressInv, DependencyOrder
<1>2. QED
  BY <1>1, InitIInv, NextIInv, PTL DEF Spec

\* What the store shows of a step is true outside, late writes included, and a run
\* that returned is stored, complete and holds no reservation.
THEOREM StoreTellsTruth == Spec => []StoredIsTrue
<1>1. ASSUME IInv PROVE StoredIsTrue
  <2>1. ASSUME pc = "returned"
        PROVE  /\ stored = Snapshot
               /\ status \in {"BLOCKED", "FAILED", "ESCALATED", "CANCELLED", "SUCCEEDED"}
               /\ \A i \in Steps : steps[i] \in FinalSteps
               /\ status = "SUCCEEDED" <=> \A i \in Steps : steps[i] = "SUCCEEDED"
               /\ reserved = {}
    <3>1. Where = "returned" /\ stored = Snapshot
      BY <1>1, <2>1, AtWork, Zenon DEF IInv
    <3>2. reserved = {} /\ \A i \in Steps : i \in Nat /\ i < N + 1
      BY <1>1, <3>1, PlanAssumption DEF IInv, PlaceInv, Steps
    <3>3. \A i \in Steps : i < index => steps[i] = "SUCCEEDED"
      BY <1>1, Zenon DEF IInv, ProgressInv
    <3>4. CASE index = N + 1 /\ status = "SUCCEEDED"
      BY <3>1, <3>2, <3>3, <3>4, StatusNames, Zenon
    <3>5. CASE /\ index \in Steps /\ status \in {"BLOCKED", "FAILED", "ESCALATED", "CANCELLED"}
               /\ steps[index] \in FinalSteps \ {"SUCCEEDED"}
               /\ \A i \in Steps : i > index => steps[i] = "CANCELLED"
      <4>1. \A i \in Steps : i < index \/ i = index \/ i > index
        BY <3>2, <3>5
      <4>2. QED
        BY <3>1, <3>2, <3>3, <3>5, <4>1, StatusNames, Zenon
    <3>6. QED
      BY <1>1, <3>1, <3>4, <3>5, Zenon DEF IInv, PlaceInv
  <2>2. ASSUME NEW i \in Steps
        PROVE  LET shown == stored.steps[i] IN
               /\ shown \in {"PENDING", "WAITING_APPROVAL", "CANCELLED"} => deploy[i] = "no"
               /\ shown \in {"VERIFYING", "SUCCEEDED", "ROLLING_BACK", "ROLLED_BACK", "ESCALATED"}
                    => deploy[i] = "written"
               /\ deploy[i] = "begun" => shown \in {"EXECUTING", "UNKNOWN"}
               /\ rollback[i] = "begun" => shown \in {"ROLLING_BACK", "ESCALATED"}
               /\ shown = "ROLLED_BACK" => rollback[i] = "written"
               /\ shown = "SUCCEEDED" => rollback[i] = "no"
    <3>1. stored.steps[i] \in StepStatuses /\ Agrees(stored.steps[i], deploy[i], rollback[i])
      BY <1>1, Zenon DEF IInv, WorkflowTypes, TruthInv
    <3>2. QED
      BY <3>1, Zenon DEF Agrees, StepStatuses, FinalSteps
  <2>3. QED
    BY <2>1, <2>2, Zenon DEF StoredIsTrue
<1>2. QED
  BY <1>1, InitIInv, NextIInv, PTL DEF Spec

\* A cancel stops the run before any step after the one it met.
THEOREM CancelEndsDeploys == Spec => []CancelStops
<1>1. IInv => CancelStops
  BY Zenon DEF IInv, CancelInv, CancelStops
<1>2. QED
  BY <1>1, InitIInv, NextIInv, PTL DEF Spec

\* A status the store shows as final is never overwritten.
THEOREM FinalStatusStays == Spec => FinalStays
<1>1. ASSUME IInv, [Next]_vars
      PROVE  [\A i \in Steps : stored.steps[i] \in FinalSteps
                => stored'.steps[i] = stored.steps[i]]_vars
  <2>1. CASE PersistCommits
    BY <1>1, <2>1, Zenon DEF PersistCommits, Snapshot, IInv, TruthInv
  <2>2. CASE ~ PersistCommits
    <3>1. stored' = stored
      BY <1>1, <2>2, StepKinds, OwnSteps, PersistStep, OutsideSteps, Zenon
    <3>2. QED
      BY <3>1, Zenon
  <2>3. QED
    BY <2>1, <2>2, Zenon
<1>2. QED
  BY <1>1, InitIInv, NextIInv, PTL DEF Spec, FinalStays
=============================================================================
