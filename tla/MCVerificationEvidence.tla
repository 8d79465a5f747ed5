----------------------- MODULE MCVerificationEvidence -----------------------
(***************************************************************************)
(* Points lie before, at both ends of, and after the window and its grace  *)
(* of a minute; values lie on both sides of the threshold.                 *)
(***************************************************************************)
EXTENDS VerificationEvidence

MCTimes == {1, 2, 4, 6, 7}
MCValues == {-1, 0, 1}
=============================================================================
