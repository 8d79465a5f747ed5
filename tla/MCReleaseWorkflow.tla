-------------------------- MODULE MCReleaseWorkflow --------------------------
(***************************************************************************)
(* Each step depends on all those before it.  With three steps the first   *)
(* is verified and rolled back automatically, the second is verified and   *)
(* not rolled back, the third is verified by nobody.                       *)
(***************************************************************************)
EXTENDS ReleaseWorkflow

MCDeps == [i \in 1 .. N |-> 1 .. i - 1]
=============================================================================
