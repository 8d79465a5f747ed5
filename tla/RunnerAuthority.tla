--------------------------- MODULE RunnerAuthority ---------------------------
(***************************************************************************)
(* How a step of a release comes to be written: the control plane plans    *)
(* it, validates the plan, evaluates its policy and waits for an approval; *)
(* a grant is signed; Runner.Execute verifies the grant, the user's token, *)
(* the delegation, the pinned context, the approval proof and, with its    *)
(* own bundle, the policy.  RunnerJournal continues at the reservation.    *)
(*                                                                         *)
(* Either process may be replaced by one with another bundle between any   *)
(* two steps, and the grant, the token, the delegation and the bundles     *)
(* expire at any time.  Nothing under src/ issues grants or hands pinned   *)
(* contexts to a runner: IssueGrant and PinContext are external.  The      *)
(* issuer is assumed to hash the input as it is after the decision, with   *)
(* the approval in it, as internal/policy/opa_test.go:49 does.             *)
(***************************************************************************)
EXTENDS Naturals, PolicyDecision

CONSTANTS Requester, MaxRestarts

ASSUME AuthorityAssumption == Requester \in Users /\ MaxRestarts \in Nat

VARIABLES
    request,    \* the step as requested
    bearer,     \* the user that the token and the delegation are about
    control,    \* the bundle of the control plane
    plan,       \* the policy hash pinned in the plan
    judge,      \* the bundle EvaluateStep decided with; "none" until the run starts
    decision,   \* what it decided
    approval,
    context,    \* the pinned context at the runner
    grant,      \* the grant in the runner's hands
    local,      \* the bundle of the runner
    stage,      \* where Execute stands
    held,       \* what had not expired when Execute verified the grant
    lapsed,     \* what has expired
    restarts

asked == <<request, bearer>>
controlVars == <<control, plan, judge, decision, approval>>
issued == <<context, grant>>
runnerVars == <<local, stage, held>>
vars == <<asked, controlVars, issued, runnerVars, lapsed, restarts>>

Papers == {"grant", "token", "delegation"}
Requests ==
    [env : Environments, risk : Risks, ci : BOOLEAN, deps : BOOLEAN,
     typed : BOOLEAN, delegated : BOOLEAN, pinned : BOOLEAN]
Contexts == [policy : Bundles, required : BOOLEAN, trusted : BOOLEAN]
Grants == [policy : Bundles, proofs : BOOLEAN, input : Inputs]
None == [none |-> TRUE]
Stages == {"idle", "verified", "identified", "delegated", "matched", "approved", "allowed",
           "written"}

\* The values the variables take.
TypeOK ==
    /\ request \in Requests /\ bearer \in Users
    /\ control \in Bundles /\ {plan, judge, local} \subseteq Bundles \cup {"none"}
    /\ decision \in {"none", "started", "ALLOW", "REQUIRE_APPROVAL", "DENY"}
    /\ approval \in {"none", "PENDING", "APPROVED", "REJECTED"}
    /\ context \in Contexts \cup {None} /\ grant \in Grants \cup {None}
    /\ stage \in Stages /\ held \subseteq Papers
    /\ lapsed \subseteq Papers \cup Bundles
    /\ restarts \in 0 .. MaxRestarts

Init ==
    /\ request \in Requests /\ bearer \in Users
    /\ control \in Bundles /\ plan = "none" /\ judge = "none"
    /\ decision = "none" /\ approval = "none"
    /\ context = None /\ grant = None
    /\ local = "none" /\ stage = "idle" /\ held = {}
    /\ lapsed = {} /\ restarts = 0

-----------------------------------------------------------------------------
(* The control plane *)

\* The planner pins the hash of the bundle its process has; a run that has not
\* started may be planned again.
Plan ==
    /\ decision = "none" /\ plan # control
    /\ plan' = control
    /\ UNCHANGED <<asked, control, judge, decision, approval, issued, runnerVars, lapsed, restarts>>

\* ValidatePlan refuses a plan whose policy is not the one of this process.
StartRun ==
    /\ decision = "none" /\ plan = control
    /\ decision' = "started"
    /\ UNCHANGED <<asked, control, plan, judge, approval, issued, runnerVars, lapsed, restarts>>

\* Mutation: an approval does not become a proof of the input.
InputWithoutProof ==
    [user |-> Requester, typed |-> request.typed, delegated |-> request.delegated,
     env |-> request.env, risk |-> request.risk, policy |-> plan,
     pinned |-> request.pinned, proofs |-> FALSE, ci |-> request.ci, deps |-> request.deps]

\* The step's input, with the approval as a proof once it is APPROVED.
InputForRelease ==
    [user |-> Requester, typed |-> request.typed, delegated |-> request.delegated,
     env |-> request.env, risk |-> request.risk, policy |-> plan,
     pinned |-> request.pinned, proofs |-> approval = "APPROVED",
     ci |-> request.ci, deps |-> request.deps]

\* EvaluateStep decides with the bundle of this process, which nothing compares
\* with the plan's; an evaluation that fails denies.
EvaluateStep ==
    /\ decision = "started"
    /\ decision' \in {Evaluate(control, InputForRelease), "DENY"}
    /\ judge' = control
    /\ approval' = IF decision' = "REQUIRE_APPROVAL" THEN "PENDING" ELSE approval
    /\ UNCHANGED <<asked, control, plan, issued, runnerVars, lapsed, restarts>>

\* The wait for the approval ends, for good.
DecideApproval ==
    /\ approval = "PENDING"
    /\ approval' \in {"APPROVED", "REJECTED"}
    /\ UNCHANGED <<asked, control, plan, judge, decision, issued, runnerVars, lapsed, restarts>>

\* The control plane comes back as a build with another bundle.
RestartControl ==
    /\ restarts < MaxRestarts /\ restarts' = restarts + 1
    /\ control' \in Bundles \ {control}
    /\ UNCHANGED <<asked, plan, judge, decision, approval, issued, runnerVars, lapsed>>

-----------------------------------------------------------------------------
(* Between the control plane and the runner *)

\* The workflow goes on to deploy the step.
Cleared == decision = "ALLOW" \/ approval = "APPROVED"

\* The runner is told what was pinned, whether an approval is required, and
\* whether to trust the reference of this one.
PinContext ==
    /\ Cleared /\ context = None
    /\ \E required, trusted \in BOOLEAN :
          context' = [policy |-> plan, required |-> required, trusted |-> trusted]
    /\ UNCHANGED <<asked, controlVars, grant, runnerVars, lapsed, restarts>>

\* A grant without subject type, delegation or one of the hashes is not signed.
WellFormed == request.typed /\ request.delegated /\ request.pinned

\* A grant for the cleared step reaches the runner, or a fresh one does.
IssueGrant ==
    /\ Cleared /\ WellFormed /\ context # None
    /\ stage = "idle" /\ (grant = None \/ "grant" \in lapsed)
    /\ grant' = [policy |-> plan, proofs |-> approval = "APPROVED", input |-> InputForRelease]
    /\ lapsed' = lapsed \ {"grant"}
    /\ UNCHANGED <<asked, controlVars, context, runnerVars, restarts>>

\* The token, the delegation, a bundle or the grant that was issued expires.
Lapse ==
    /\ stage # "written"
    /\ \E x \in (Papers \cup Bundles) \ lapsed :
          (x = "grant" => grant # None) /\ lapsed' = lapsed \cup {x}
    /\ UNCHANGED <<asked, controlVars, issued, runnerVars, restarts>>

-----------------------------------------------------------------------------
(* The runner *)

\* NewVerifiedOPA: VerifyBundle looks at the expiry of the bundle, once.
LoadBundle ==
    /\ local = "none"
    /\ local' \in Bundles \ lapsed
    /\ UNCHANGED <<asked, controlVars, issued, stage, held, lapsed, restarts>>

\* The runner's process ends before it has reserved the action.
RestartRunner ==
    /\ local # "none" /\ stage # "written"
    /\ restarts < MaxRestarts /\ restarts' = restarts + 1
    /\ local' = "none" /\ stage' = "idle" /\ held' = {}
    /\ UNCHANGED <<asked, controlVars, issued, lapsed>>

\* Execute passes a check and goes on to the next.
Pass(from, check, to) ==
    /\ stage = from /\ check
    /\ stage' = to
    /\ UNCHANGED <<asked, controlVars, issued, local, lapsed, restarts>>

\* A check fails, or what it consults is not available, and the grant may be
\* delivered again (RunnerJournal has the reservation this may leave behind).
Reject ==
    /\ stage \notin {"idle", "written"}
    /\ stage' = "idle" /\ held' = {}
    /\ UNCHANGED <<asked, controlVars, issued, local, lapsed, restarts>>

\* Verifier.Verify, and the checks up to the runner's connection.
VerifyGrant ==
    /\ Pass("idle", grant # None /\ "grant" \notin lapsed, "verified")
    /\ held' = Papers \ lapsed

\* OIDCVerifier.Verify; of the verified subject only the id is compared.
VerifySubject ==
    /\ Pass("verified", "token" \notin lapsed /\ bearer.id = Requester.id, "identified")
    /\ UNCHANGED held

\* Mutation: a delegation is accepted after its end.
DelegationEver ==
    /\ Pass("identified", TRUE, "delegated")
    /\ UNCHANGED held

\* DelegationVerifier.Verify; a scope that is too narrow is a Reject.
VerifyDelegation ==
    /\ Pass("identified", "delegation" \notin lapsed, "delegated")
    /\ UNCHANGED held

\* ResolveContext and matchingHashes.
MatchContext ==
    /\ Pass("delegated", grant.policy = context.policy, "matched")
    /\ UNCHANGED held

\* The proof the context requires is there, and one that is there is trusted.
VerifyApprovals ==
    /\ Pass("matched",
            (context.required => grant.proofs) /\ (grant.proofs => context.trusted),
            "approved")
    /\ UNCHANGED held

\* The input of the verified subject and the grant: CI and health are taken to be
\* good, as they were when the grant was issued.
InputForGrant ==
    [user |-> bearer, typed |-> TRUE, delegated |-> TRUE, env |-> request.env,
     risk |-> request.risk, policy |-> grant.policy, pinned |-> TRUE,
     proofs |-> grant.proofs, ci |-> TRUE, deps |-> TRUE]

\* Mutation: the hash of the input is not compared.
AgreesOnPolicy ==
    /\ local # "none" /\ Evaluate(local, InputForGrant) = "ALLOW"
    /\ local = grant.policy

\* The local bundle allows the input, and both hashes are the grant's.
Agrees ==
    /\ local # "none" /\ Evaluate(local, InputForGrant) = "ALLOW"
    /\ InputForGrant = grant.input /\ local = grant.policy

EvaluateLocally ==
    /\ Pass("approved", Agrees, "allowed")
    /\ UNCHANGED held

\* The reservation, the credential and the adapter.
Write ==
    /\ Pass("allowed", TRUE, "written")
    /\ UNCHANGED held

Control == Plan \/ StartRun \/ EvaluateStep \/ DecideApproval \/ RestartControl
Execute ==
    \/ VerifyGrant \/ VerifySubject \/ VerifyDelegation \/ MatchContext
    \/ VerifyApprovals \/ EvaluateLocally \/ Write \/ Reject

Next ==
    \/ Control \/ PinContext \/ IssueGrant \/ Lapse
    \/ LoadBundle \/ RestartRunner \/ Execute

Spec == Init /\ [][Next]_vars

-----------------------------------------------------------------------------
(* Properties *)

\* What is written was cleared by the control plane, and the bundle pinned in the
\* plan allows it on the facts of the request, although the control plane may have
\* decided with another bundle, the runner may have loaded another one since, and
\* the runner never sees whether CI passed.  The user who was verified is the one
\* who asked, issuer included.  And although Execute looks at the expiry of the
\* grant, the token and the delegation one after the other, and writes later
\* still, none of the three had expired when it looked at the grant.
WrittenIsAgreed ==
    stage = "written" =>
        /\ Cleared
        /\ Evaluate(plan, InputForRelease) = "ALLOW"
        /\ request.ci /\ request.deps
        /\ bearer = Requester
        /\ context.required \/ request.risk = "high" => approval = "APPROVED"
        /\ held = Papers

\* A step that the pinned bundle cleared is not refused by a runner with that same
\* bundle: the approval that was asked for makes the runner's input allowed, and
\* the two inputs have one hash (InputForRelease and InputForGrant).
ClearedIsAccepted ==
    /\ stage = "approved" /\ judge = plan /\ local = plan
    /\ bearer = Requester /\ request.ci /\ request.deps
    => Agrees

\* A bundle that has expired lets nothing be written.  TLC refutes this: the
\* expiry of a bundle is looked at when it is loaded only (NewVerifiedOPA).
ExpiredPolicyStops ==
    [][stage' = "written" /\ stage # "written" => local \notin lapsed]_vars
=============================================================================
