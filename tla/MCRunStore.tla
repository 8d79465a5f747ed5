------------------------------ MODULE MCRunStore -----------------------------
(***************************************************************************)
(* Two callers with the same request, two writers and a rebuild share      *)
(* three connections.                                                      *)
(***************************************************************************)
EXTENDS RunStore

CONSTANTS c1, c2, w1, w2
=============================================================================
