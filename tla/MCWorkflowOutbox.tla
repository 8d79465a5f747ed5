-------------------------- MODULE MCWorkflowOutbox --------------------------
(***************************************************************************)
(* Two processes.  Two calls carry the same request, one to each process;  *)
(* a third carries another request.                                        *)
(***************************************************************************)
EXTENDS WorkflowOutbox, TLC

CONSTANTS c1, c2, c3, p1, p2

MCRequestID == c1 :> "r1" @@ c2 :> "r1" @@ c3 :> "r2"
MCHome == c1 :> p1 @@ c2 :> p2 @@ c3 :> p1
=============================================================================
