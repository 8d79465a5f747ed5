----------------------- MODULE MCExecutionReservation -----------------------
(***************************************************************************)
(* One operation with all three attempts the retry policy allows.          *)
(* Operations share no state, so one is enough.                            *)
(***************************************************************************)
EXTENDS ExecutionReservation
=============================================================================
