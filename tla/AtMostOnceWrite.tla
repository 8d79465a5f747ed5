--------------------------- MODULE AtMostOnceWrite ---------------------------
(***************************************************************************)
(* What a journal of external operations promises, whoever keeps it.  An   *)
(* operation is one (adapter, idempotency key) pair.  It is claimed in the *)
(* journal before anything is sent to the outside, it is sent at most      *)
(* once, and the journal confirms it only after it was sent.  A confirmed  *)
(* entry is final; an entry in doubt may still be confirmed later.         *)
(*                                                                         *)
(* ExecutionReservation (workflow activities) and RunnerJournal (runner)   *)
(* are both shown to implement this specification.                         *)
(***************************************************************************)
CONSTANT Ops

VARIABLES
    stage,    \* Ops -> "free" | "claimed" | "written"
    journal   \* Ops -> "open" | "confirmed" | "doubtful"

vars == <<stage, journal>>

Init ==
    /\ stage = [o \in Ops |-> "free"]
    /\ journal = [o \in Ops |-> "open"]

Claim(o) ==
    /\ stage[o] = "free"
    /\ stage' = [stage EXCEPT ![o] = "claimed"]
    /\ UNCHANGED journal

Write(o) ==
    /\ stage[o] = "claimed"
    /\ stage' = [stage EXCEPT ![o] = "written"]
    /\ UNCHANGED journal

Doubt(o) ==
    /\ stage[o] # "free"
    /\ journal[o] = "open"
    /\ journal' = [journal EXCEPT ![o] = "doubtful"]
    /\ UNCHANGED stage

Confirm(o) ==
    /\ stage[o] = "written"
    /\ journal[o] # "confirmed"
    /\ journal' = [journal EXCEPT ![o] = "confirmed"]
    /\ UNCHANGED stage

Next == \E o \in Ops : Claim(o) \/ Write(o) \/ Doubt(o) \/ Confirm(o)

Spec == Init /\ [][Next]_vars
=============================================================================
