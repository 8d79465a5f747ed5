---------------------------- MODULE MCReleasePlan ----------------------------
(***************************************************************************)
(* Every dependency graph over three services, cyclic ones included; a     *)
(* contract may name a dependency twice, a declared service once.  Two     *)
(* services share a failure domain of limit 1, which one names twice; two  *)
(* of a tenant's steps fit one wave.                                       *)
(***************************************************************************)
EXTENDS ReleasePlan

MCMaxTimes == [c \in Constructors |-> IF c = "New" THEN 1 ELSE 2]

MCKeys == {"tenant", "domain"}
MCUses == [s \in Services |->
             [k \in MCKeys |-> IF k = "tenant" THEN 1 ELSE (s - 1)]]
MCLimitOf == [k \in MCKeys |-> IF k = "tenant" THEN 2 ELSE 1]
=============================================================================
