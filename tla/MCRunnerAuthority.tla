-------------------------- MODULE MCRunnerAuthority --------------------------
(* Two bundles, one with the standard layer; a namesake of the requester at    *)
(* another issuer, and another user.                                           *)
EXTENDS RunnerAuthority

MCRequester == [id |-> "u1", issuer |-> "i1"]
MCUsers == {MCRequester, [id |-> "u1", issuer |-> "i2"], [id |-> "u2", issuer |-> "i1"]}
=============================================================================
