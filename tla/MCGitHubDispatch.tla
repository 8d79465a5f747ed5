-------------------------- MODULE MCGitHubDispatch --------------------------
(***************************************************************************)
(* One operation.  Reconcile visits another workflow file before its own,  *)
(* and others dispatch runs of both.                                       *)
(***************************************************************************)
EXTENDS GitHubDispatch

CONSTANT deploy

MCFiles == <<"another.yml", "release.yml">>
MCFileOf == [k \in Keys |-> "release.yml"]
=============================================================================
