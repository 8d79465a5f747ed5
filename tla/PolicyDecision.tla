--------------------------- MODULE PolicyDecision ----------------------------
(***************************************************************************)
(* The canonical policy input and what a bundle decides on it              *)
(* (internal/policy and the Rego modules under policies/).                 *)
(*                                                                         *)
(* A bundle is the platform layer, with or without the standard layer on   *)
(* top.  An input keeps the fields that a rule reads and those in which    *)
(* the control plane's input and the runner's can differ; the other fields *)
(* are copied from the plan into the grant.  InputHash is injective, so an *)
(* input stands for its hash, and a bundle for its own.                    *)
(***************************************************************************)

CONSTANTS
    Bundles,    \* policy bundles
    Standard,   \* the ones with the standard layer
    Users       \* verified subjects: records with a field id and a field issuer

BundlesLoaded == Standard \subseteq Bundles /\ "none" \notin Bundles

ASSUME BundlesAssumption == BundlesLoaded

Environments == {"staging", "production"}
Risks == {"low", "medium", "high"}

\* typed: the subject type is user or ci.  delegated: there is a delegation
\* reference.  pinned: all five hashes are there.  proofs: an approval proof is.
Inputs ==
    [user : Users, typed : BOOLEAN, delegated : BOOLEAN, env : Environments,
     risk : Risks, policy : Bundles, pinned : BOOLEAN, proofs : BOOLEAN,
     ci : BOOLEAN, deps : BOOLEAN]

\* Reasons of the baseline to deny.  An empty delegation reference is left out
\* of the encoded input, where MISSING_DELEGATION compares it with "": an
\* undefined comparison, so that rule adds nothing.  User, agent and version are
\* always set.  No rule reads CI or health.
BaselineDeny(i) ==
    {r \in {"INVALID_SUBJECT_TYPE", "MISSING_PINNED_CONTEXT"} :
        /\ i.env = "production"
        /\ \/ r = "INVALID_SUBJECT_TYPE" /\ ~ i.typed
           \/ r = "MISSING_PINNED_CONTEXT" /\ ~ i.pinned}

\* The baseline's reason to ask for an approval.
ApprovalRequired(i) == i.risk = "high" /\ ~ i.proofs

\* The standard layer's reason to deny.
StandardDeny(i) ==
    {r \in {"PRODUCTION_RISK_NOT_APPROVED"} :
        i.env = "production" /\ i.risk = "medium" /\ ~ i.proofs}

\* A lower layer adds reasons to deny and takes none away.
Deny(b, i) == BaselineDeny(i) \cup {r \in StandardDeny(i) : b \in Standard}

\* OPA.Evaluate on the rules allow and require_approval.
Evaluate(b, i) ==
    IF Deny(b, i) # {} THEN "DENY"
    ELSE IF ApprovalRequired(i) THEN "REQUIRE_APPROVAL" ELSE "ALLOW"
=============================================================================
