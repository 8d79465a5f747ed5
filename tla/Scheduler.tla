------------------------------ MODULE Scheduler ------------------------------
(***************************************************************************)
(* The in-process dispatch coordinator of a worker: the concurrency budget,*)
(* the production circuit breaker and backpressure (internal/scheduler),   *)
(* behind the AcquireSchedule and CompleteSchedule activities and their    *)
(* scheduled map (internal/workflow/activities.go).                        *)
(*                                                                         *)
(* A dispatch is one step of one release run.  Its workflow calls          *)
(* AcquireSchedule, works, and calls CompleteSchedule.  Temporal may run   *)
(* either activity again because its answer was lost, and an attempt it    *)
(* gave up on may run late.  The workflow may fail in between and never    *)
(* call CompleteSchedule.  A restart of the worker empties the coordinator.*)
(*                                                                         *)
(* The capacity of a runner comes from the table of frozen runners         *)
(* (internal/application), which each process has for itself: a worker     *)
(* with a process of its own (cmd/themisy -mode worker) has one that no    *)
(* request reaches.                                                        *)
(***************************************************************************)
EXTENDS Integers, Sequences, FiniteSets, FiniteSetsExt, Functions

CONSTANTS
    Dispatches,     \* (run, step) pairs
    StepOf,         \* the scheduling projection of each dispatch
    LimitOf(_),     \* Limits: the cap of a budget key
    MinimumSamples, \* CircuitPolicy
    WindowSize,
    RateNum,        \* ErrorRate = RateNum / RateDen
    RateDen,
    OneProcess,     \* mode all: the worker runs in the process that serves the API
    Freezable,      \* runners, by tenant and group, that an operator may freeze
    MaxLate,        \* attempts that come too late considered
    MaxRestarts     \* worker restarts considered

ASSUME PolicyAssumption ==
    /\ MinimumSamples \in Nat \ {0}
    /\ WindowSize \in Nat /\ WindowSize >= MinimumSamples
    /\ RateNum \in 1 .. RateDen
    /\ OneProcess \in BOOLEAN
    /\ Freezable \subseteq {<<StepOf[d].tenant, StepOf[d].runnerGroup>> : d \in Dispatches}
    /\ \A d \in Dispatches : StepOf[d].failureDomains \in Seq(STRING)
    /\ MaxRestarts \in Nat

VARIABLES
    phase,     \* where the workflow of each dispatch is
    scheduled, \* keys of Activities.scheduled
    active,    \* Budget.active
    window,    \* CircuitBreaker.windows: outcomes per tenant, TRUE for failed
    open,      \* CircuitBreaker.open
    frozen,    \* Releases.frozenRunners of the process that serves the API
    reader,    \* the dispatch whose AcquireSchedule has read a capacity, if any
    slipped,   \* reservations made for each runner since it was frozen
    late,      \* dispatches acquired again by an attempt that came too late
    restarts

freezing == <<frozen, reader, slipped>>
vars == <<phase, scheduled, active, window, open, freezing, late, restarts>>

RunnerOf(d) == <<StepOf[d].tenant, StepOf[d].runnerGroup>>
Runners == {RunnerOf(d) : d \in Dispatches}
Tenants == {StepOf[d].tenant : d \in Dispatches}

\* keysFor: every dimension but the tenant's own is scoped by tenant.  Failure
\* domains come as a list, which may name a domain twice.
KeysFor(s) ==
    << <<"tenant", s.tenant>>,
       <<"environment", s.tenant, s.environment>>,
       <<"region", s.tenant, s.environment, s.region>>,
       <<"cluster", s.tenant, s.environment, s.region, s.cluster>>,
       <<"team", s.tenant, s.team>>,
       <<"riskTier", s.tenant, s.riskTier>>,
       <<"service", s.tenant, s.environment, s.id>> >>
    \o [n \in DOMAIN s.failureDomains |->
          <<"failureDomain", s.tenant, s.environment, s.failureDomains[n]>>]

KeysOf == [d \in Dispatches |-> Range(KeysFor(StepOf[d]))]

KeySet == UNION {KeysOf[d] : d \in Dispatches}

\* Limits.Validate: every limit is positive.
ASSUME LimitAssumption == \A key \in KeySet : LimitOf(key) \in Nat \ {0}

\* Where a key occurs among those of a dispatch, and how often.
Uses == [d \in Dispatches |-> [key \in KeySet |->
           {d} \X {n \in DOMAIN KeysFor(StepOf[d]) : KeysFor(StepOf[d])[n] = key}]]

Count == [d \in Dispatches |-> [key \in KeySet |-> Cardinality(Uses[d][key])]]

TypeOK ==
    /\ phase \in [Dispatches -> {"idle", "acquiring", "holding", "completing", "ended",
                              "failed"}]
    /\ scheduled \subseteq Dispatches
    /\ active \in [KeySet -> Nat]
    /\ window \in [Tenants -> Seq(BOOLEAN)]
    /\ \A t \in Tenants : Len(window[t]) <= WindowSize
    /\ open \in [Tenants -> BOOLEAN]
    /\ frozen \subseteq Runners
    /\ reader \subseteq Dispatches /\ Cardinality(reader) <= 1
    /\ slipped \in [Runners -> Nat]
    /\ late \subseteq Dispatches
    /\ restarts \in 0 .. MaxRestarts

\* NewActivities: what a fresh coordinator holds.
Fresh == [scheduled |-> {},
          active |-> [key \in KeySet |-> 0],
          window |-> [t \in Tenants |-> <<>>],
          open |-> [t \in Tenants |-> FALSE],
          frozen |-> {}, reader |-> {}, slipped |-> [r \in Runners |-> 0]]

Init ==
    /\ phase = [d \in Dispatches |-> "idle"]
    /\ scheduled = Fresh.scheduled
    /\ active = Fresh.active
    /\ window = Fresh.window
    /\ open = Fresh.open
    /\ frozen = Fresh.frozen
    /\ reader = Fresh.reader
    /\ slipped = Fresh.slipped
    /\ late = {}
    /\ restarts = 0

-----------------------------------------------------------------------------
(* Budget *)

\* Mutation: the limit itself is still granted.
BlockedAboveLimit(d) == {key \in KeysOf[d] : active[key] > LimitOf(key)}

Blocked(d) == {key \in KeysOf[d] : active[key] >= LimitOf(key)}

TryAcquire(d) ==
    /\ Blocked(d) = {}
    /\ active' = [key \in KeySet |-> active[key] + Count[d][key]]

\* Mutation: failure domains are not given back.
ReleaseKeepsDomains(d) ==
    active' = [key \in KeySet |->
                 IF Head(key) = "failureDomain" THEN active[key]
                 ELSE Max({0, active[key] - Count[d][key]})]

\* Release never counts below zero.
ReleaseBudget(d) ==
    active' = [key \in KeySet |-> Max({0, active[key] - Count[d][key]})]

-----------------------------------------------------------------------------
(* Circuit breaker *)

Failures(w) == Cardinality({n \in DOMAIN w : w[n]})

\* Mutation: the rate has to be exceeded.
TrippedAbove(w) ==
    /\ Len(w) >= MinimumSamples
    /\ Failures(w) * RateDen > RateNum * Len(w)

Tripped(w) ==
    /\ Len(w) >= MinimumSamples
    /\ Failures(w) * RateDen >= RateNum * Len(w)

Slide(w, failed) ==
    LET longer == Append(w, failed) IN
    SubSeq(longer, Max({1, Len(longer) - WindowSize + 1}), Len(longer))

Allow(s) == s.environment # "production" \/ ~open[s.tenant]

\* Mutation: a window that recovers closes the circuit.
RecordCloses(s, failed) ==
    IF s.environment # "production"
    THEN UNCHANGED <<window, open>>
    ELSE LET w == Slide(window[s.tenant], failed) IN
         /\ window' = [window EXCEPT ![s.tenant] = w]
         /\ open' = [open EXCEPT ![s.tenant] = Tripped(w)]

\* Mutation: the rate is taken before the new outcome is added.
RecordStale(s, failed) ==
    IF s.environment # "production"
    THEN UNCHANGED <<window, open>>
    ELSE LET w == Slide(window[s.tenant], failed) IN
         /\ window' = [window EXCEPT ![s.tenant] = w]
         /\ open' = [open EXCEPT ![s.tenant] = @ \/ Tripped(window[s.tenant])]

Record(s, failed) ==
    IF s.environment # "production"
    THEN UNCHANGED <<window, open>>
    ELSE LET w == Slide(window[s.tenant], failed) IN
         /\ window' = [window EXCEPT ![s.tenant] = w]
         /\ open' = [open EXCEPT ![s.tenant] = @ \/ Tripped(w)]

-----------------------------------------------------------------------------
(* The activities.  They exclude one another (scheduleMu); a runner may be  *)
(* frozen between the reading of its capacity and the reservation.          *)

\* An attempt that Temporal gave up on may still run once the workflow is past it.
MayBeLate(d) == phase[d] # "idle" /\ d \notin late /\ Cardinality(late) < MaxLate

\* Mutation: the capacity is that of the runner group, whoever has frozen it.
ReadSharedCapacity(d) ==
    /\ reader = {} /\ d \notin scheduled
    /\ phase[d] = "acquiring" \/ MayBeLate(d)
    /\ reader' = {d}
    /\ UNCHANGED <<phase, scheduled, active, window, open, frozen, slipped, late, restarts>>

\* AcquireSchedule finds no earlier grant and reads a capacity above zero.
ReadCapacity(d) ==
    /\ reader = {} /\ d \notin scheduled
    /\ phase[d] = "acquiring" \/ MayBeLate(d)
    /\ OneProcess => RunnerOf(d) \notin frozen
    /\ reader' = {d}
    /\ UNCHANGED <<phase, scheduled, active, window, open, frozen, slipped, late, restarts>>

\* FreezeRunner: nothing lifts it but a restart of the process.
FreezeRunner(r) ==
    /\ frozen' = frozen \cup {r}
    /\ UNCHANGED <<phase, scheduled, active, window, open, reader, slipped, late, restarts>>

\* A reservation is made.  Capacity left it to the breaker and the budget.
Dispatch(d) ==
    /\ reader = {d}
    /\ Allow(StepOf[d])
    /\ TryAcquire(d)
    /\ scheduled' = scheduled \cup {d}
    /\ reader' = {}
    /\ slipped' = [slipped EXCEPT ![RunnerOf(d)] = IF RunnerOf(d) \in frozen THEN @ + 1 ELSE 0]
    /\ UNCHANGED frozen

Call(d) ==
    /\ phase[d] = "idle"
    /\ phase' = [phase EXCEPT ![d] = "acquiring"]
    /\ UNCHANGED <<scheduled, active, window, open, freezing, late, restarts>>

\* AcquireSchedule grants.  Its answer arrives, or is lost and it runs again.
AcquireGrants(d) ==
    /\ phase[d] = "acquiring"
    /\ Dispatch(d)
    /\ \/ phase' = [phase EXCEPT ![d] = "holding"]
       \/ UNCHANGED phase
    /\ UNCHANGED <<window, open, late, restarts>>

\* An attempt finds the grant an earlier attempt obtained.
AcquireFinds(d) ==
    /\ phase[d] = "acquiring"
    /\ reader = {} /\ d \in scheduled
    /\ phase' = [phase EXCEPT ![d] = "holding"]
    /\ UNCHANGED <<scheduled, active, window, open, freezing, late, restarts>>

\* Dispatch refuses: no capacity is read for a frozen runner, or the circuit is
\* open, or the budget is full.
Refused(d) ==
    \/ reader = {} /\ OneProcess /\ RunnerOf(d) \in frozen
    \/ reader = {d} /\ (~Allow(StepOf[d]) \/ Blocked(d) # {})

\* Mutation: a repeated attempt competes with the grant of the first.
AcquireRefusesAgain(d) ==
    /\ phase[d] = "acquiring"
    /\ Refused(d) \/ (reader = {} /\ Blocked(d) # {})
    /\ phase' = [phase EXCEPT ![d] = "ended"]
    /\ reader' = {}
    /\ UNCHANGED <<scheduled, active, window, open, frozen, slipped, late, restarts>>

\* The refusal ends the run, or its answer is lost and AcquireSchedule runs again.
AcquireRefuses(d) ==
    /\ phase[d] = "acquiring"
    /\ d \notin scheduled
    /\ Refused(d)
    /\ \/ phase' = [phase EXCEPT ![d] = "ended"]
       \/ UNCHANGED phase
    /\ reader' = {}
    /\ UNCHANGED <<scheduled, active, window, open, frozen, slipped, late, restarts>>

\* The workflow returns an error: CompleteSchedule is never called.
WorkflowFails(d) ==
    /\ phase[d] \in {"acquiring", "holding", "completing"}
    /\ phase' = [phase EXCEPT ![d] = "failed"]
    /\ UNCHANGED <<scheduled, active, window, open, freezing, late, restarts>>

Finish(d) ==
    /\ phase[d] = "holding"
    /\ phase' = [phase EXCEPT ![d] = "completing"]
    /\ UNCHANGED <<scheduled, active, window, open, freezing, late, restarts>>

\* CompleteSchedule gives the reservation back and records the outcome, once.
CompleteReleases(d, failed) ==
    /\ phase[d] = "completing"
    /\ reader = {} /\ d \in scheduled
    /\ scheduled' = scheduled \ {d}
    /\ ReleaseBudget(d)
    /\ Record(StepOf[d], failed)
    /\ \/ phase' = [phase EXCEPT ![d] = "ended"]
       \/ UNCHANGED phase
    /\ UNCHANGED <<freezing, late, restarts>>

\* Nothing is scheduled under this key (any more).
CompleteFindsNothing(d) ==
    /\ phase[d] = "completing"
    /\ reader = {} /\ d \notin scheduled
    /\ phase' = [phase EXCEPT ![d] = "ended"]
    /\ UNCHANGED <<scheduled, active, window, open, freezing, late, restarts>>

\* An attempt of AcquireSchedule that Temporal gave up on is granted late, or
\* refused with nobody to hear it.
AcquireLate(d) ==
    /\ phase[d] \in {"holding", "completing", "ended", "failed"}
    /\ Dispatch(d)
    /\ late' = late \cup {d}
    /\ UNCHANGED <<phase, window, open, restarts>>

RefusesLate(d) ==
    /\ phase[d] # "acquiring"
    /\ reader = {d} /\ Refused(d)
    /\ reader' = {}
    /\ UNCHANGED <<phase, scheduled, active, window, open, frozen, slipped, late, restarts>>

WorkerRestart ==
    /\ restarts < MaxRestarts
    /\ restarts' = restarts + 1
    /\ scheduled' = Fresh.scheduled
    /\ active' = Fresh.active
    /\ window' = Fresh.window
    /\ open' = Fresh.open
    /\ frozen' = IF OneProcess THEN Fresh.frozen ELSE frozen
    /\ reader' = Fresh.reader
    /\ slipped' = Fresh.slipped
    /\ UNCHANGED <<phase, late>>

Next ==
    \/ \E d \in Dispatches :
          \/ Call(d) \/ ReadCapacity(d)
          \/ AcquireGrants(d) \/ AcquireFinds(d) \/ AcquireRefuses(d)
          \/ AcquireLate(d) \/ RefusesLate(d)
          \/ WorkflowFails(d) \/ Finish(d) \/ CompleteFindsNothing(d)
          \/ \E failed \in BOOLEAN : CompleteReleases(d, failed)
    \/ \E r \in Freezable : FreezeRunner(r)
    \/ WorkerRestart

Spec == Init /\ [][Next]_vars

-----------------------------------------------------------------------------
(* Properties *)

\* The places a set of dispatches takes under a key.
Held(S, key) == UNION {Uses[d][key] : d \in S}

\* The budget counts exactly what the scheduled map holds, through retries,
\* restarts and failed workflows: nothing leaks, nothing is given back twice.  So
\* no limit is exceeded by the reservations of one worker process; in particular
\* a service is deployed by one run at a time (TryAcquire, Release).
BudgetIsExact ==
    \A key \in KeySet :
        /\ active[key] = Cardinality(Held(scheduled, key))
        /\ Cardinality({d \in scheduled : key \in KeysOf[d]}) <= LimitOf(key)

\* A step whose workflow went through CompleteSchedule, or was refused, holds no
\* reservation, unless an attempt of AcquireSchedule came late.
ReleasedAtEnd == \A d \in scheduled : phase[d] = "ended" => d \in late

\* At least MinimumSamples outcomes, of which the policy's share or more failed.
ThresholdMet(w) ==
    /\ Len(w) >= MinimumSamples
    /\ Cardinality({n \in DOMAIN w : w[n]}) * RateDen >= RateNum * Len(w)

\* A window that meets the policy's threshold, if only just, has opened the circuit.
TripsInTime == \A t \in Tenants : ThresholdMet(window[t]) => open[t]

\* Only a restart of the worker closes a circuit, and while it is open no
\* reservation for production is made for that tenant.
OpenStopsProduction ==
    [][\A t \in Tenants : open[t] =>
         \/ restarts' # restarts
         \/ /\ open'[t]
            /\ \A d \in scheduled' \ scheduled :
                  ~(StepOf[d].tenant = t /\ StepOf[d].environment = "production")]_vars

\* Once a runner is frozen for a tenant, at most one more reservation is made for
\* it until the process restarts: the one whose AcquireSchedule had read the
\* capacity before ("fails closed before an execution reservation").
FreezeHolds == \A r \in Runners : slipped[r] <= 1
==============================================================================
