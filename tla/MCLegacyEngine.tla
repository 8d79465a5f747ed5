--------------------------- MODULE MCLegacyEngine ---------------------------
(***************************************************************************)
(* Two steps, the second depending on the first.  The first needs an       *)
(* approval and is rolled back automatically; the second is allowed.       *)
(***************************************************************************)
EXTENDS LegacyEngine

MCDeps == [i \in 1 .. N |-> 1 .. i - 1]
MCDecision == [i \in 1 .. N |-> IF i = 1 THEN "REQUIRE_APPROVAL" ELSE "ALLOW"]
=============================================================================
