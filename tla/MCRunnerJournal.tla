--------------------------- MODULE MCRunnerJournal ---------------------------
(***************************************************************************)
(* The second grant reissues the first under a new nonce; the third uses   *)
(* the first one's nonce for another operation.                            *)
(***************************************************************************)
EXTENDS RunnerJournal, TLC

CONSTANTS g1, g2, g3, d1, d2

MCNonceOf == g1 :> "n1" @@ g2 :> "n2" @@ g3 :> "n1"
MCKeyOf == g1 :> "k1" @@ g2 :> "k1" @@ g3 :> "k2"
=============================================================================
