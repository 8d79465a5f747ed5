----------------------------- MODULE MCScheduler -----------------------------
(***************************************************************************)
(* Three runs release to production for one tenant, two of them the same   *)
(* service; the third shares a failure domain with the first and names it  *)
(* twice.  A fourth works in staging.  Two of a tenant's steps may be      *)
(* dispatched at a time.                                                   *)
(***************************************************************************)
EXTENDS Scheduler, TLC

CONSTANTS web1, web2, api, stage

MCStep(id, environment, domains) ==
    [id |-> id, tenant |-> "acme", environment |-> environment, region |-> "eu",
     cluster |-> "c1", team |-> "core", riskTier |-> "high", runnerGroup |-> environment,
     failureDomains |-> domains]

MCStepOf ==
    web1 :> MCStep("web", "production", <<"db">>) @@
    web2 :> MCStep("web", "production", <<"cache">>) @@
    api :> MCStep("api", "production", <<"db", "db">>) @@
    stage :> MCStep("web", "staging", <<"db">>)

MCFreezable == {<<"acme", "production">>}

MCLimitOf(key) == IF Head(key) \in {"failureDomain", "service"} THEN 1 ELSE 2
=============================================================================
